---- MODULE Spec2Model ----
(***************************************************************************)
(* Verification model of the Geospatial Compute Engine:                    *)
(*   - GraphCache (Services/IsochroneServices.py): memory LRU, disk store, *)
(*     background prefetch worker, cache/clear route;                      *)
(*   - the PDP route solver and the matrix builder                         *)
(*     (Services/MatrixServices.py);                                       *)
(*   - the usage tracker decorator (Utils/usageTracker.py);                *)
(*   - transport-mode normalisation (Services/DirectionsServices.py).      *)
(* Each component has its own specification over its own variables; the    *)
(* variables of the other components stay at their initial values.         *)
(***************************************************************************)
EXTENDS Integers, Sequences, FiniteSets, TLC

(***************************************************************************)
(* Generic helpers                                                         *)
(***************************************************************************)
Range(s) == {s[i] : i \in DOMAIN s}

SetMin(S) == CHOOSE x \in S : \A y \in S : x <= y

SetMax(S) == CHOOSE x \in S : \A y \in S : x >= y

(***************************************************************************)
(* State                                                                   *)
(***************************************************************************)

\* GraphCache
VARIABLES
    memory_cache,          \* function: cached key -> graph
    cache_access_times,    \* function: key -> timestamp
    download_queue,        \* sequence of prefetch tasks
    download_in_progress,  \* set of keys
    disk,                  \* set of keys that have a graph file
    pc,                    \* per request thread: position in get_graph
    req,                   \* per request thread: arguments of the call
    ret,                   \* per request thread: outcome of the last call
    wpc,                   \* position of the background downloader
    wtask,                 \* task the background downloader works on
    calls,                 \* number of get_graph calls started
    faults,                \* number of I/O failures and cache/clear requests
    prefetched,            \* number of tasks the downloader has taken
    history,               \* single-threaded runs: keys requested, in
                           \* call order
    budget                 \* calls the run may make, and on which threads

cacheVars == <<memory_cache, cache_access_times, download_queue,
               download_in_progress, disk, pc, req, ret, wpc, wtask,
               calls, faults, prefetched, history, budget>>

\* solve_pdp_optimized
VARIABLES
    node_names,            \* sequence of node names; node i is node_names[i+1]
    unvisited,             \* set of node indices
    visited_pickups,       \* set of package ids
    current_node_idx,
    route,                 \* sequence of node indices
    forced,                \* node indices that the fallback step selected
    pdp_pc                 \* "off", "loop", "returned"

pdpVars == <<node_names, unvisited, visited_pickups, current_node_idx,
             route, forced, pdp_pc>>

\* track_usage
VARIABLES
    tr_pc,                 \* position in decorated_function
    tr_user,               \* user_id of the current request
    tr_response,           \* response of the wrapped handler
    tr_status,             \* status_code the tracker derived
    tr_usage_id,           \* usage.id of the record logged for the request
    tr_failed,             \* steps of the current request that raised
    tr_out,                \* how decorated_function ended the last request
    usage_records,         \* rows of ApiUsage
    analytics_records,     \* rows of ApiAnalytics
    tr_count               \* requests started

trackerVars == <<tr_pc, tr_user, tr_response, tr_status, tr_usage_id,
                 tr_failed, tr_out, usage_records, analytics_records,
                 tr_count>>

\* calculate_realistic_travel_time
VARIABLES
    tt_path_len,           \* len(path)
    tt_edges,              \* edge data of the consecutive pairs of path
    tt_result,             \* value returned
    tt_pc                  \* "off", "called", "returned"

timeVars == <<tt_path_len, tt_edges, tt_result, tt_pc>>

\* precompute_distance_matrix
VARIABLES
    mx_graph,              \* the edges of the graph
    mx_lat,                \* the latitudes of its nodes
    mx_nodes,              \* the argument `nodes`
    distance_matrix,       \* function on index pairs, metres
    time_matrix,           \* function on index pairs, milliseconds
    mx_i,                  \* index of the source the batch loop is at
    mx_faults,             \* Dijkstra runs that raised on a node of the graph
    mx_pc                  \* "off", "batch", "outer", "diagonal", "returned"

matrixVars == <<mx_graph, mx_lat, mx_nodes, distance_matrix, time_matrix,
                mx_i, mx_faults, mx_pc>>

\* validate_transport_mode and its handler
VARIABLES
    md_input,              \* data.get('transport_mode', 'driving')
    md_mode,               \* data['transport_mode'] once validated
    md_status,             \* "proceed", "400" or "500"
    md_pc                  \* "off", "received", "validated", "routing",
                           \* "answered"

modeVars == <<md_input, md_mode, md_status, md_pc>>

\* calculate_isochrone_cached
VARIABLES
    iso_seconds,           \* per node: travel time from the origin, seconds
    iso_points,            \* per node: position <<x, y>>
    travel_times_seconds,  \* the thresholds of the request
    iso_k,                 \* thresholds the loop has dealt with
    isochrones,            \* sequence of the records of the result
    iso_pc                 \* "off", "loop", "returned"

isoVars == <<iso_seconds, iso_points, travel_times_seconds, iso_k,
             isochrones, iso_pc>>

\* solve_tsp_optimized
VARIABLES
    tsp_returned,          \* what precompute_distance_matrix returns
    tsp_route,             \* route: indices of the locations, from 0
    tsp_result,            \* the dict the solver returns
    tsp_pc                 \* "off", "start", "solved", "raised", "returned"

tspVars == <<tsp_returned, tsp_route, tsp_result, tsp_pc>>

\* The handlers of the endpoints that take coordinates
VARIABLES
    ep_name,               \* the endpoint of the request
    ep_points,             \* the coordinates of the request, <<lat, lng>> each
    ep_status,             \* status of the response, 0 while there is none
    ep_pc                  \* "off", "received", "rejected", "computing"

endpointVars == <<ep_name, ep_points, ep_status, ep_pc>>

\* The lock of the graph cache and the threads that use the cache
VARIABLES
    lk_todo,               \* per thread: the steps of its call still to do
    lk_done,               \* per thread: the step it did last
    lk_calls,              \* per thread: calls started
    lk_owner,              \* the thread that holds self.lock, or "none"
    lk_depth               \* how often the owner has acquired the RLock

lockVars == <<lk_todo, lk_done, lk_calls, lk_owner, lk_depth>>

\* The travel times of the graphs of one cache key
VARIABLES
    an_type,               \* network_type of the key
    an_disk,               \* the graph in the file of the key, or NoFile
    an_memory,             \* memory_cache[cache_key], or NoFile
    an_returned,           \* what the last call of get_graph returned
    an_calls               \* calls of get_graph so far

annotVars == <<an_type, an_disk, an_memory, an_returned, an_calls>>

\* _load_from_disk on the graph file of one key, called by two threads
VARIABLES
    ld_file,               \* the file: "none", "good" or "corrupted"
    ld_pc,                 \* per thread: where it is in get_graph
    ld_cause,              \* per thread: why its load raised
    ld_ret                 \* per thread: what get_graph returned

loadVars == <<ld_file, ld_pc, ld_cause, ld_ret>>

\* The result of solve_pdp_optimized for one request
VARIABLES
    co_data,               \* the argument `data`: the items of the request
    co_names,              \* node_names
    co_route,              \* route: node indices, from 0
    co_coords,             \* optimal_route_coords
    co_pc                  \* "off", "received", "loop", "solved", "returned"

coordVars == <<co_data, co_names, co_route, co_coords, co_pc>>

\* get_route_directions for one request
VARIABLES
    op_waypoints,          \* route_coords of the request: <<lat, lng>> each
    op_optimize,           \* data.get('optimize_route', False)
    op_fallback,           \* data.get('use_osmnx_fallback', False)
    op_result,             \* how the optimization step ended
    op_coords,             \* route_coords the route is computed for
    op_osrm,               \* how call_osrm_route ended
    op_status,             \* 'status' of the dict that is returned
    op_pc                  \* "off", "received", "routing", "failed",
                           \* "answered"

optVars == <<op_waypoints, op_optimize, op_fallback, op_result, op_coords,
             op_osrm, op_status, op_pc>>

\* The memo of calculate_isochrone_cached and the handlers that call
\* calculate_isochrone
VARIABLES
    mm_cache,              \* the lru_cache: arguments -> result object
    mm_heap,               \* the result dicts, by object
    mm_pc,                 \* per handler thread: "idle", "compute", "handle"
    mm_args,               \* per thread: endpoint and arguments of its call
    mm_distance,           \* per thread: buffer_distance of its computation
    mm_obj,                \* per thread: the object calculate_isochrone
                           \* returned
    mm_hit,                \* per thread: the call was answered from the memo
    mm_calls               \* requests started

memoVars == <<mm_cache, mm_heap, mm_pc, mm_args, mm_distance, mm_obj,
              mm_hit, mm_calls>>
vars == <<cacheVars, pdpVars, trackerVars, timeVars, matrixVars, modeVars,
          tspVars, endpointVars, lockVars, annotVars, loadVars, coordVars,
          optVars, memoVars, isoVars>>

\* The variables a component leaves alone: those of the other components.
exceptCache == <<pdpVars, trackerVars, timeVars, matrixVars, modeVars,
                 tspVars, endpointVars, lockVars, annotVars, loadVars,
                 coordVars, optVars, memoVars, isoVars>>

exceptPdp == <<cacheVars, trackerVars, timeVars, matrixVars, modeVars,
               tspVars, endpointVars, lockVars, annotVars, loadVars,
               coordVars, optVars, memoVars, isoVars>>

exceptTracker == <<cacheVars, pdpVars, timeVars, matrixVars, modeVars,
                   tspVars, endpointVars, lockVars, annotVars, loadVars,
                   coordVars, optVars, memoVars, isoVars>>

exceptTime == <<cacheVars, pdpVars, trackerVars, matrixVars, modeVars,
                tspVars, endpointVars, lockVars, annotVars, loadVars,
                coordVars, optVars, memoVars, isoVars>>

exceptMatrix == <<cacheVars, pdpVars, trackerVars, timeVars, modeVars,
                  tspVars, endpointVars, lockVars, annotVars, loadVars,
                  coordVars, optVars, memoVars, isoVars>>

exceptMode == <<cacheVars, pdpVars, trackerVars, timeVars, matrixVars,
                tspVars, endpointVars, lockVars, annotVars, loadVars,
                coordVars, optVars, memoVars, isoVars>>

exceptTsp == <<cacheVars, pdpVars, trackerVars, timeVars, matrixVars,
               modeVars, endpointVars, lockVars, annotVars, loadVars,
               coordVars, optVars, memoVars, isoVars>>

exceptEndpoint == <<cacheVars, pdpVars, trackerVars, timeVars, matrixVars,
                    modeVars, tspVars, lockVars, annotVars, loadVars,
                    coordVars, optVars, memoVars, isoVars>>

exceptLock == <<cacheVars, pdpVars, trackerVars, timeVars, matrixVars,
                modeVars, tspVars, endpointVars, annotVars, loadVars,
                coordVars, optVars, memoVars, isoVars>>

exceptAnnot == <<cacheVars, pdpVars, trackerVars, timeVars, matrixVars,
                 modeVars, tspVars, endpointVars, lockVars, loadVars,
                 coordVars, optVars, memoVars, isoVars>>

exceptLoad == <<cacheVars, pdpVars, trackerVars, timeVars, matrixVars,
                modeVars, tspVars, endpointVars, lockVars, annotVars,
                coordVars, optVars, memoVars, isoVars>>

exceptCoord == <<cacheVars, pdpVars, trackerVars, timeVars, matrixVars,
                 modeVars, tspVars, endpointVars, lockVars, annotVars,
                 loadVars, optVars, memoVars, isoVars>>

exceptOpt == <<cacheVars, pdpVars, trackerVars, timeVars, matrixVars,
               modeVars, tspVars, endpointVars, lockVars, annotVars,
               loadVars, coordVars, memoVars, isoVars>>

exceptMemo == <<cacheVars, pdpVars, trackerVars, timeVars, matrixVars,
                modeVars, tspVars, endpointVars, lockVars, annotVars,
                loadVars, coordVars, optVars, isoVars>>

exceptIso == <<cacheVars, pdpVars, trackerVars, timeVars, matrixVars,
               modeVars, tspVars, endpointVars, lockVars, annotVars,
               loadVars, coordVars, optVars, memoVars>>

(***************************************************************************)
(* GraphCache                                                              *)
(*                                                                         *)
(* Coordinates are integers in units of 1e-4 degree.  A cache key is the   *)
(* tuple <<lat bucket, lon bucket, km, network_type>> that the source      *)
(* formats into the string "<lat>_<lon>_<km>km_<type>".                    *)
(***************************************************************************)

\* Bounds of the cache model.
max_memory_graphs == 2      \* constructor argument of GraphCache
MaxCalls == 2               \* get_graph calls per run, two threads
MaxSeqCalls == 3            \* get_graph calls per run, one thread
MaxFaults == 1              \* failing fetches, loads and saves, and
                            \* cache/clear requests, per run
MaxPrefetch == 1            \* tasks the background downloader takes per run
MaxWarmCalls == 3           \* get_graph calls per run over a filled cache
                            \* folder, two threads

Threads == {"r1", "r2"}     \* request worker threads

\* Inputs of get_graph: <<lat, lon, distance, network_type>>.  The first
\* point rounds into the bucket <<0, 0>>, the second and the third are that
\* bucket's neighbours 0.02 degree to the north and to the south, the fourth
\* is more than 50 km away.
RequestPoints ==
    { <<3, 0, 2000, "drive">>,
      <<200, 0, 2000, "drive">>,
      <<-197, 0, 2000, "drive">>,
      <<9000, 0, 2000, "drive">> }

NoKey == <<0, 0, 0, "none">>

NoGraph == [region |-> NoKey]

\* round(x, 3) on a coordinate given in 1e-4 degree.
Round3(x) == ((x + 5) \div 10) * 10

\* _generate_cache_key
GenerateCacheKey(lat, lon, distance, network_type) ==
    <<Round3(lat), Round3(lon), distance \div 1000, network_type>>

\* The graph the upstream provider returns for a key.
FetchedGraph(key) == [region |-> key]

NoTask == [cache_key |-> NoKey, lat |-> 0, lon |-> 0, distance |-> 0,
           network_type |-> "none"]

NoReq == <<0, 0, 0, "none">>

KeyOf(t) == GenerateCacheKey(req[t][1], req[t][2], req[t][3], req[t][4])

\* The cache after construction over a cache folder that holds the files of
\* the keys `files` (_create_cache_folder keeps a folder that exists, with
\* the files earlier runs of the service saved).  budget is what the run is given: the
\* number of get_graph calls, the request threads, the number of failures
\* and cache/clear requests, and the points that are requested.
InitCacheOver(files, total, threads, failures, points) ==
    /\ budget = [total |-> total, threads |-> threads,
                 faults |-> failures, points |-> points]
    /\ memory_cache = <<>>
    /\ cache_access_times = <<>>
    /\ download_queue = <<>>
    /\ download_in_progress = {}
    /\ disk = files
    /\ pc = [t \in Threads |-> "idle"]
    /\ req = [t \in Threads |-> NoReq]
    /\ ret = [t \in Threads |-> [status |-> "no_call", graph |-> NoGraph]]
    /\ wpc = "wait"
    /\ wtask = NoTask
    /\ calls = 0
    /\ faults = 0
    /\ prefetched = 0
    /\ history = <<>>

\* The cache constructed over an empty cache folder.
InitCache(total, threads, failures, points) ==
    InitCacheOver({}, total, threads, failures, points)

\* Function update that may extend the domain (dict[key] = value).
Put(f, k, v) == [x \in (DOMAIN f) \cup {k} |-> IF x = k THEN v ELSE f[x]]

\* del dict[key]
Del(f, k) == [x \in (DOMAIN f) \ {k} |-> f[x]]

\* time.time() under the lock: a value later than every timestamp stored
\* so far.
Now ==
    IF DOMAIN cache_access_times = {} THEN 1
    ELSE 1 + SetMax({cache_access_times[k] : k \in DOMAIN cache_access_times})

\* The timestamps are kept as their ranks 1..n: the code only ever compares
\* them with one another (min() in _manage_memory_cache).
Rank(times) ==
    [k \in DOMAIN times |->
        Cardinality({j \in DOMAIN times : times[j] <= times[k]})]

\* cache_access_times[key] = time.time()
Stamp(times, key) == Rank(Put(times, key, Now))

\* Mutant of OldestKeys: max() instead of min().
NewestKeys(times) ==
    {k \in DOMAIN times : \A j \in DOMAIN times : times[k] >= times[j]}

\* min(cache_access_times.keys(), key=...): the keys with the oldest
\* timestamp (one key, as the timestamps differ).
OldestKeys(times) ==
    {k \in DOMAIN times : \A j \in DOMAIN times : times[k] <= times[j]}

\* len(self.memory_cache) >= self.max_memory_graphs
CacheIsFull(mem) == Cardinality(DOMAIN mem) >= max_memory_graphs

\* Mutant of CacheHasSpace: <= instead of <.
CacheHasSpaceOffByOne(mem) == Cardinality(DOMAIN mem) <= max_memory_graphs

\* len(self.memory_cache) < self.max_memory_graphs
CacheHasSpace(mem) == Cardinality(DOMAIN mem) < max_memory_graphs

\* Mutant of ManageMemoryCache: the timestamp of the evicted key is kept.
ManageMemoryOnly(mem, times, oldest) ==
    IF CacheIsFull(mem)
    THEN <<Del(mem, oldest), times>>
    ELSE <<mem, times>>

\* _manage_memory_cache, for the key `oldest` that min() picked: the pair
\* <<memory_cache, cache_access_times>> afterwards.
ManageMemoryCache(mem, times, oldest) ==
    IF CacheIsFull(mem)
    THEN <<Del(mem, oldest), Del(times, oldest)>>
    ELSE <<mem, times>>

\* The keys min() can pick inside _manage_memory_cache; NoKey when nothing
\* is evicted.
EvictionChoices(mem, times) ==
    IF CacheIsFull(mem) THEN OldestKeys(times) ELSE {NoKey}

\* _manage_memory_cache raises (min() of an empty dict, or del of a key the
\* memory map does not hold).
ManageRaises(mem, times) ==
    /\ CacheIsFull(mem)
    /\ \/ DOMAIN times = {}
       \/ \E k \in OldestKeys(times) : k \notin DOMAIN mem

\* geodesic((lat, lon), (cached_lat, cached_lon)), squared, in units of
\* 1e-4 degree (one unit is 11.1 m).
GeodesicSq(lat, lon, cached_lat, cached_lon) ==
    (lat - cached_lat) * (lat - cached_lat)
        + (lon - cached_lon) * (lon - cached_lon)

\* dist < 50  (kilometres; one degree is 111 km, dsq is cut to 1e-2 degree
\* squared to stay inside the machine integers)
Within50Km(dsq) == (dsq \div 10000) * 111 * 111 < 50 * 50 * 10000

\* _get_nearby_graph: the graphs it can return; NoGraph stands for None.
NearbyGraphs(mem, lat, lon, network_type) ==
    LET cand == {k \in DOMAIN mem :
                    /\ k[4] = network_type
                    /\ Within50Km(GeodesicSq(lat, lon, k[1], k[2]))}
        best == {k \in cand : \A j \in cand :
                    GeodesicSq(lat, lon, k[1], k[2])
                        <= GeodesicSq(lat, lon, j[1], j[2])}
    IN  IF cand = {} THEN {NoGraph} ELSE {mem[k] : k \in best}

\* Mutant of Offsets: the adjacent areas only, without the diagonal ones.
AdjacentOffsets ==
    << <<200, 0>>, <<-200, 0>>, <<0, 200>>, <<0, -200>> >>

\* offsets of _queue_nearby_downloads, 0.02 degree each, in source order
Offsets ==
    << <<200, 0>>, <<-200, 0>>, <<0, 200>>, <<0, -200>>,
       <<200, 200>>, <<200, -200>>, <<-200, 200>>, <<-200, -200>> >>

NearbyTask(lat, lon, distance, network_type, off) ==
    [cache_key |-> GenerateCacheKey(lat + off[1], lon + off[2], distance,
                                    network_type),
     lat |-> lat + off[1], lon |-> lon + off[2],
     distance |-> distance, network_type |-> network_type]

\* "Only queue if not already cached or downloading"
ShouldQueue(key, mem, files, inprog) ==
    /\ key \notin DOMAIN mem
    /\ key \notin files
    /\ key \notin inprog

RECURSIVE QueueNearbyFrom(_, _, _, _, _, _, _, _, _)
QueueNearbyFrom(i, q, lat, lon, distance, network_type, mem, files, inprog) ==
    IF i > Len(Offsets) THEN q
    ELSE LET task == NearbyTask(lat, lon, distance, network_type, Offsets[i])
         IN  QueueNearbyFrom(i + 1,
                 IF ShouldQueue(task.cache_key, mem, files, inprog)
                 THEN Append(q, task) ELSE q,
                 lat, lon, distance, network_type, mem, files, inprog)

\* _queue_nearby_downloads: the queue afterwards (queue.Queue() is unbounded,
\* put_nowait never raises Full).
QueueNearbyDownloads(q, lat, lon, distance, network_type, mem, files, inprog) ==
    QueueNearbyFrom(1, q, lat, lon, distance, network_type, mem, files, inprog)

\* get_graph returns (or raises) on thread t; its frame is dropped.
Return(t, status, graph) ==
    /\ ret' = [ret EXCEPT ![t] = [status |-> status, graph |-> graph]]
    /\ pc' = [pc EXCEPT ![t] = "idle"]
    /\ req' = [req EXCEPT ![t] = NoReq]

\* ---- get_graph, one action per lock region or blocking call ----

\* The server runs each request on a thread of its own; the threads are
\* interchangeable, so a request takes the first one that is free.
FirstFree(t) == \A u \in Threads : pc[u] = "idle" => (t = "r1" \/ u # "r1")

\* A request thread enters get_graph, computes the cache key and runs the
\* first lock region: "Check memory cache first".
GetGraphCall(t, p) ==
    LET key == GenerateCacheKey(p[1], p[2], p[3], p[4])
    IN  /\ pc[t] = "idle"
        /\ t \in budget.threads
        /\ p \in budget.points
        /\ FirstFree(t)
        /\ calls < budget.total
        /\ calls' = calls + 1
        /\ history' = IF budget.threads = {t} THEN Append(history, key)
                      ELSE history
        /\ IF key \in DOMAIN memory_cache
           THEN /\ cache_access_times' = Stamp(cache_access_times, key)
                /\ Return(t, "graph", memory_cache[key])
           ELSE /\ pc' = [pc EXCEPT ![t] = "load_from_disk"]
                /\ req' = [req EXCEPT ![t] = p]
                /\ ret' = [ret EXCEPT ![t] = [status |-> "running",
                                              graph |-> NoGraph]]
                /\ UNCHANGED cache_access_times
        /\ UNCHANGED <<memory_cache, download_queue, download_in_progress,
                       disk, wpc, wtask, faults, prefetched,
                       budget>>
        /\ UNCHANGED exceptCache

\* _load_from_disk: the file does not exist, or it loads, or loading raises
\* and the corrupted file is removed.
LoadFromDisk(t) ==
    /\ pc[t] = "load_from_disk"
    /\ IF KeyOf(t) \in disk
       THEN \/ /\ pc' = [pc EXCEPT ![t] = "promote"]
               /\ UNCHANGED <<disk, faults>>
            \/ /\ faults < budget.faults
               /\ faults' = faults + 1
               /\ disk' = disk \ {KeyOf(t)}
               /\ pc' = [pc EXCEPT ![t] = "check_in_progress"]
       ELSE /\ pc' = [pc EXCEPT ![t] = "check_in_progress"]
            /\ UNCHANGED <<disk, faults>>
    /\ UNCHANGED <<memory_cache, cache_access_times, download_queue,
                   download_in_progress, req, ret, wpc, wtask, calls,
                   prefetched, history, budget>>
    /\ UNCHANGED exceptCache

\* The lock region that stores a graph: _manage_memory_cache(), then
\* memory_cache[key] = graph and cache_access_times[key] = time.time().
\* `raised` and `stored` are what the caller does after either outcome.
StoreGraph(t, raised, stored) ==
    IF ManageRaises(memory_cache, cache_access_times)
    THEN /\ raised
         /\ UNCHANGED <<memory_cache, cache_access_times>>
    ELSE \E oldest \in EvictionChoices(memory_cache, cache_access_times) :
            LET managed == ManageMemoryCache(memory_cache,
                                             cache_access_times, oldest)
            IN  /\ memory_cache' =
                       Put(managed[1], KeyOf(t), FetchedGraph(KeyOf(t)))
                /\ cache_access_times' = Stamp(managed[2], KeyOf(t))
                /\ stored

\* Disk hit: promote the loaded graph to memory and return it.
Promote(t) ==
    /\ pc[t] = "promote"
    /\ StoreGraph(t, Return(t, "raise", NoGraph),
                     Return(t, "graph", FetchedGraph(KeyOf(t))))
    /\ UNCHANGED <<download_queue, download_in_progress, disk, wpc,
                   wtask, calls, faults, prefetched, history, budget>>
    /\ UNCHANGED exceptCache

\* "Check if download is in progress" (under the lock): answer with
\* _get_nearby_graph, or leave the lock and call ox.graph_from_point.
CheckInProgress(t) ==
    /\ pc[t] = "check_in_progress"
    /\ IF KeyOf(t) \in download_in_progress
       THEN \E g \in NearbyGraphs(memory_cache, req[t][1], req[t][2],
                                  req[t][4]) :
               Return(t, IF g = NoGraph THEN "none" ELSE "graph", g)
       ELSE /\ pc' = [pc EXCEPT ![t] = "downloading"]
            /\ UNCHANGED <<ret, req>>
    /\ UNCHANGED <<memory_cache, cache_access_times, download_queue,
                   download_in_progress, disk, wpc, wtask, calls,
                   faults, prefetched, history, budget>>
    /\ UNCHANGED exceptCache

\* pc = "downloading": the thread is inside ox.graph_from_point.  The fetch
\* returns and _save_to_disk writes the file (a failing save is logged and
\* swallowed); or the fetch raises and get_graph re-raises.
Download(t) ==
    /\ pc[t] = "downloading"
    /\ \/ /\ disk' = disk \cup {KeyOf(t)}
          /\ pc' = [pc EXCEPT ![t] = "add_to_memory"]
          /\ UNCHANGED <<ret, req, faults>>
       \/ /\ faults < budget.faults
          /\ faults' = faults + 1
          /\ pc' = [pc EXCEPT ![t] = "add_to_memory"]
          /\ UNCHANGED <<ret, req, disk>>
       \/ /\ faults < budget.faults
          /\ faults' = faults + 1
          /\ Return(t, "raise", NoGraph)
          /\ UNCHANGED disk
    /\ UNCHANGED <<memory_cache, cache_access_times, download_queue,
                   download_in_progress, wpc, wtask, calls,
                   prefetched, history, budget>>
    /\ UNCHANGED exceptCache

\* "Add to memory cache" (under the lock)
AddToMemory(t) ==
    /\ pc[t] = "add_to_memory"
    /\ StoreGraph(t, Return(t, "raise", NoGraph),
                     /\ pc' = [pc EXCEPT ![t] = "queue_nearby"]
                     /\ UNCHANGED <<ret, req>>)
    /\ UNCHANGED <<download_queue, download_in_progress, disk, wpc,
                   wtask, calls, faults, prefetched, history, budget>>
    /\ UNCHANGED exceptCache

\* _queue_nearby_downloads (no lock), then "return graph".
QueueNearby(t) ==
    /\ pc[t] = "queue_nearby"
    /\ download_queue' =
           QueueNearbyDownloads(download_queue, req[t][1], req[t][2],
                                req[t][3], req[t][4], memory_cache, disk,
                                download_in_progress)
    /\ Return(t, "graph", FetchedGraph(KeyOf(t)))
    /\ UNCHANGED <<memory_cache, cache_access_times, download_in_progress,
                   disk, wpc, wtask, calls, faults,
                   prefetched, history, budget>>
    /\ UNCHANGED exceptCache

\* ---- background downloader ----

\* task = self.download_queue.get(timeout=60), then the first lock region of
\* _download_graph_background: return if the key is in progress, else mark
\* it and call ox.graph_from_point.
WorkerTake ==
    /\ wpc = "wait"
    /\ download_queue # <<>>
    /\ prefetched < MaxPrefetch
    /\ prefetched' = prefetched + 1
    /\ download_queue' = Tail(download_queue)
    /\ IF Head(download_queue).cache_key \in download_in_progress
       THEN UNCHANGED <<wpc, wtask, download_in_progress>>
       ELSE /\ wtask' = Head(download_queue)
            /\ download_in_progress' =
                   download_in_progress \cup {Head(download_queue).cache_key}
            /\ wpc' = "bg_downloading"
    /\ UNCHANGED <<memory_cache, cache_access_times, disk, pc, req,
                   ret, calls, faults, history, budget>>
    /\ UNCHANGED exceptCache

\* wpc = "bg_downloading": the worker is inside ox.graph_from_point.  The
\* fetch returns and _save_to_disk writes the file (a failing save is
\* swallowed); or the fetch raises into the except clause.
BgDownload ==
    /\ wpc = "bg_downloading"
    /\ \/ /\ disk' = disk \cup {wtask.cache_key}
          /\ wpc' = "bg_add"
          /\ UNCHANGED faults
       \/ /\ faults < budget.faults
          /\ faults' = faults + 1
          /\ wpc' = "bg_add"
          /\ UNCHANGED disk
       \/ /\ faults < budget.faults
          /\ faults' = faults + 1
          /\ wpc' = "bg_finally"
          /\ UNCHANGED disk
    /\ UNCHANGED <<memory_cache, cache_access_times, download_queue,
                   download_in_progress, pc, req, ret, wtask, calls,
                   prefetched, history, budget>>
    /\ UNCHANGED exceptCache

\* "Add to memory cache if there's space" (under the lock)
BgAdd ==
    /\ wpc = "bg_add"
    /\ IF CacheHasSpace(memory_cache)
       THEN /\ memory_cache' = Put(memory_cache, wtask.cache_key,
                                   FetchedGraph(wtask.cache_key))
            /\ cache_access_times' =
                   Stamp(cache_access_times, wtask.cache_key)
       ELSE UNCHANGED <<memory_cache, cache_access_times>>
    /\ wpc' = "bg_finally"
    /\ UNCHANGED <<download_queue, download_in_progress, disk, pc, req, ret,
                   wtask, calls, faults, prefetched, history, budget>>
    /\ UNCHANGED exceptCache

\* Mutant of Discard: the key stays in the set.
DiscardNothing(inprog, key) == inprog

\* self.download_in_progress.discard(cache_key)
Discard(inprog, key) == inprog \ {key}

\* finally: download_in_progress.discard(cache_key); task_done()
BgFinally ==
    /\ wpc = "bg_finally"
    /\ download_in_progress' = Discard(download_in_progress, wtask.cache_key)
    /\ wpc' = "wait"
    /\ wtask' = NoTask
    /\ UNCHANGED <<memory_cache, cache_access_times, download_queue, disk,
                   pc, req, ret, calls, faults, prefetched,
                   history, budget>>
    /\ UNCHANGED exceptCache

\* ---- POST /cache/clear ----
\* clear_memory empties both maps under the lock; clear_disk removes every
\* graph file.  (A request with both flags behaves as the first followed by
\* the second.)
ClearCache(clear_memory, clear_disk) ==
    /\ faults < budget.faults
    /\ faults' = faults + 1
    /\ IF clear_memory
       THEN /\ memory_cache' = <<>>
            /\ cache_access_times' = <<>>
       ELSE UNCHANGED <<memory_cache, cache_access_times>>
    /\ IF clear_disk THEN disk' = {} ELSE UNCHANGED disk
    /\ UNCHANGED <<download_queue, download_in_progress, pc, req, ret,
                   wpc, wtask, calls, prefetched, history, budget>>
    /\ UNCHANGED exceptCache

\* The request threads and the background downloader.
NextCacheRun ==
    \/ \E t \in Threads, p \in RequestPoints : GetGraphCall(t, p)
    \/ \E t \in Threads : LoadFromDisk(t)
    \/ \E t \in Threads : Promote(t)
    \/ \E t \in Threads : CheckInProgress(t)
    \/ \E t \in Threads : Download(t)
    \/ \E t \in Threads : AddToMemory(t)
    \/ \E t \in Threads : QueueNearby(t)
    \/ WorkerTake
    \/ BgDownload
    \/ BgAdd
    \/ BgFinally

\* The request threads, the background downloader and POST /cache/clear.
NextCache ==
    \/ \E t \in Threads, p \in RequestPoints : GetGraphCall(t, p)
    \/ \E t \in Threads : LoadFromDisk(t)
    \/ \E t \in Threads : Promote(t)
    \/ \E t \in Threads : CheckInProgress(t)
    \/ \E t \in Threads : Download(t)
    \/ \E t \in Threads : AddToMemory(t)
    \/ \E t \in Threads : QueueNearby(t)
    \/ WorkerTake
    \/ BgDownload
    \/ BgAdd
    \/ BgFinally
    \/ \E cm \in BOOLEAN, cd \in BOOLEAN : (cm \/ cd) /\ ClearCache(cm, cd)

(***************************************************************************)
(* PDP route solver: solve_pdp_optimized (Services/MatrixServices.py)      *)
(*                                                                         *)
(* Node indices are 0-based as in the source: index 0 is the start node,   *)
(* then the pickup nodes, then the delivery nodes.  A node name            *)
(* f'Pickup_{pkg_id}' is the record [type |-> "Pickup", pkg |-> pkg_id].   *)
(*                                                                         *)
(* Row current_node_idx of distance_matrix is read only in the iteration   *)
(* in which that node is the current one, and every iteration has a new    *)
(* current node; the matrix is therefore drawn row by row, when the row is *)
(* read.  The segment bookkeeping (distances, times, paths) has no         *)
(* influence on the node that is selected and is left out.                 *)
(***************************************************************************)

MaxStops == 2               \* pickups, and deliveries, per request

\* float('inf')
Inf == 99999999

\* Package ids of the requests.  "Delivery" and "Pickup" are ids that spell
\* the words the solver searches the node names for.
PackageIds == {"p1", "Delivery", "Pickup"}

\* Values of distance_matrix entries, in metres.
MatrixDistances == {100, 200, Inf}

\* Sequences over S of length at most n.
SeqsUpTo(S, n) == UNION {[1..k -> S] : k \in 0..n}

\* The keys of {ids[i]: ... for i in range(len(ids))}, in insertion order:
\* the first occurrence of every id.
RECURSIVE DictKeys(_)
DictKeys(ids) ==
    IF ids = <<>> THEN <<>>
    ELSE LET front == DictKeys(SubSeq(ids, 1, Len(ids) - 1))
             last == ids[Len(ids)]
         IN  IF last \in Range(front) THEN front ELSE Append(front, last)

NameOfType(type, ids) == [i \in DOMAIN ids |-> [type |-> type, pkg |-> ids[i]]]

StartName == [type |-> "Start", pkg |-> ""]

\* node_names = ['Start'] + [Pickup_...] + [Delivery_...]
NodeNames(pickups, deliveries) ==
    <<StartName>> \o NameOfType("Pickup", DictKeys(pickups))
                  \o NameOfType("Delivery", DictKeys(deliveries))

NameOf(names, idx) == names[idx + 1]

\* word in node_name, for the strings f'{type}_{pkg}' of the model
WordInName(word, name) == name.type = word \/ name.pkg = word

\* node_name.split('_', 1)[1]
PkgOfName(name) == name.pkg

\* "Ensure delivery comes after pickup": the loop skips the node.
SkippedByGreedy(name, vp) ==
    WordInName("Delivery", name) /\ PkgOfName(name) \notin vp

\* The nodes the greedy scan can end with as next_node_idx, for the row
\* `row` of the distance matrix: the scan keeps a node only when its
\* distance is strictly below the best so far, starting from infinity; the
\* set is scanned in no guaranteed order, so every nearest node can win.
GreedyChoices(names, unv, vp, row) ==
    LET cand == {n \in unv : /\ ~SkippedByGreedy(NameOf(names, n), vp)
                             /\ row[n] < Inf}
    IN  {n \in cand : \A m \in cand : row[n] <= row[m]}

\* Mutant of ForcedNode: max() instead of min().
ForcedNodeLargest(unv) == SetMax(unv)

\* next_node_idx = min(unvisited)
ForcedNode(unv) == SetMin(unv)

\* visited_pickups after node `name` was appended to the route
MarkPickup(vp, name) ==
    IF WordInName("Pickup", name) THEN vp \cup {PkgOfName(name)} ELSE vp

PdpOff ==
    /\ node_names = <<>>
    /\ unvisited = {}
    /\ visited_pickups = {}
    /\ current_node_idx = 0
    /\ route = <<>>
    /\ forced = {}
    /\ pdp_pc = "off"

\* The state when the main loop is entered, for a request with the given
\* package ids of its pickup and its delivery locations.
InitPdp ==
    \E pickups \in SeqsUpTo(PackageIds, MaxStops),
       deliveries \in SeqsUpTo(PackageIds, MaxStops) :
        /\ node_names = NodeNames(pickups, deliveries)
        /\ unvisited = 1..(Len(NodeNames(pickups, deliveries)) - 1)
        /\ visited_pickups = {}
        /\ current_node_idx = 0
        /\ route = <<0>>
        /\ forced = {}
        /\ pdp_pc = "loop"

\* Mutant of Visit: the node is not appended to the route.
VisitUnrecorded(next_node_idx) ==
    /\ route' = route
    /\ current_node_idx' = next_node_idx
    /\ unvisited' = unvisited \ {next_node_idx}
    /\ visited_pickups' =
           MarkPickup(visited_pickups, NameOf(node_names, next_node_idx))

\* route.append(next_node_idx), current_node_idx = next_node_idx,
\* unvisited.remove(next_node_idx) and the marking of a pickup
Visit(next_node_idx) ==
    /\ route' = Append(route, next_node_idx)
    /\ current_node_idx' = next_node_idx
    /\ unvisited' = unvisited \ {next_node_idx}
    /\ visited_pickups' =
           MarkPickup(visited_pickups, NameOf(node_names, next_node_idx))

\* One iteration of "while unvisited" in which the scan finds a node.
PdpSelect(row) ==
    /\ pdp_pc = "loop"
    /\ unvisited # {}
    /\ \E next_node_idx \in
           GreedyChoices(node_names, unvisited, visited_pickups, row) :
           Visit(next_node_idx)
    /\ UNCHANGED <<node_names, forced, pdp_pc>>
    /\ UNCHANGED exceptPdp

\* One iteration in which the scan finds none: "Force selection of the
\* first unvisited node".
PdpFallback(row) ==
    /\ pdp_pc = "loop"
    /\ unvisited # {}
    /\ GreedyChoices(node_names, unvisited, visited_pickups, row) = {}
    /\ Visit(ForcedNode(unvisited))
    /\ forced' = forced \cup {ForcedNode(unvisited)}
    /\ UNCHANGED <<node_names, pdp_pc>>
    /\ UNCHANGED exceptPdp

\* The loop ends; the result with optimal_route is returned.
PdpReturn ==
    /\ pdp_pc = "loop"
    /\ unvisited = {}
    /\ pdp_pc' = "returned"
    /\ UNCHANGED <<node_names, unvisited, visited_pickups,
                   current_node_idx, route, forced>>
    /\ UNCHANGED exceptPdp

NextPdp ==
    \/ \E row \in [unvisited -> MatrixDistances] : PdpSelect(row)
    \/ \E row \in [unvisited -> MatrixDistances] : PdpFallback(row)
    \/ PdpReturn

\* optimal_route = [node_names[i] for i in route]
OptimalRoute == [k \in DOMAIN route |-> NameOf(node_names, route[k])]

(***************************************************************************)
(* Usage tracker: track_usage and _extract_analytics_data                  *)
(* (Utils/usageTracker.py), UsageCRUD (Crud/usageCrud.py)                  *)
(***************************************************************************)

MaxRequests == 2            \* tracked requests per run

\* get_jwt_identity(): "none" stands for None (no valid token).
UserIds == {"none", "u1"}

StatusCodes == {200, 399, 400, 500}

\* What the wrapped handler returns: a Response object, a tuple
\* (Response, status), a tuple (body, status), or a value of another type.
HandlerResponses ==
    [kind : {"Response", "tuple_response", "tuple_body"}, status : StatusCodes]
        \cup {[kind |-> "other", status |-> 200]}

NoResponse == [kind |-> "none", status |-> 0]

NoOutcome == [how |-> "none", response |-> NoResponse]

TrackerState(position) ==
    /\ tr_pc = position
    /\ tr_user = "none"
    /\ tr_response = NoResponse
    /\ tr_status = 0
    /\ tr_usage_id = 0
    /\ tr_failed = {}
    /\ tr_out = NoOutcome
    /\ usage_records = {}
    /\ analytics_records = {}
    /\ tr_count = 0

TrackerOff == TrackerState("off")

InitTracker == TrackerState("idle")

\* status_code as lines 53-74 derive it from the handler's response
DerivedStatus(response) ==
    IF response.kind = "other" THEN 500 ELSE response.status

\* Mutant of AnalyticsAllowed: the client errors pass.
AnalyticsAllowedBelow500(status_code) == status_code < 500

\* if status_code < 400
AnalyticsAllowed(status_code) == status_code < 400

\* Mutant of Caught: the except clause re-raises.
Reraised(response) == [how |-> "raised", response |-> NoResponse]

\* The outcome of decorated_function when a tracking step raised: the
\* except clauses log the error, then "return response".
Caught(response) == [how |-> "returned", response |-> response]

\* The request comes in: the JWT identity is read and the wrapped handler
\* runs and returns.
TrackerCall(user_id, response) ==
    /\ tr_pc = "idle"
    /\ tr_count < MaxRequests
    /\ tr_count' = tr_count + 1
    /\ tr_user' = user_id
    /\ tr_response' = response
    /\ tr_status' = 0
    /\ tr_usage_id' = 0
    /\ tr_failed' = {}
    /\ tr_out' = NoOutcome
    /\ tr_pc' = "metrics"
    /\ UNCHANGED <<usage_records, analytics_records>>
    /\ UNCHANGED exceptTracker

\* The wrapped handler raises: line 45 is outside every try block.
TrackerHandlerRaises(user_id) ==
    /\ tr_pc = "idle"
    /\ tr_count < MaxRequests
    /\ tr_count' = tr_count + 1
    /\ tr_user' = user_id
    /\ tr_response' = NoResponse
    /\ tr_status' = 0
    /\ tr_usage_id' = 0
    /\ tr_failed' = {}
    /\ tr_out' = [how |-> "raised", response |-> NoResponse]
    /\ UNCHANGED <<tr_pc, usage_records, analytics_records>>
    /\ UNCHANGED exceptTracker

\* "Calculate response metrics" and the user_id test; when the response
\* cannot be measured the step raises into the outer except clause.
TrackerMetrics ==
    /\ tr_pc = "metrics"
    /\ \/ /\ tr_status' = DerivedStatus(tr_response)
          /\ tr_pc' = IF tr_user # "none" THEN "log_usage" ELSE "return"
          /\ UNCHANGED <<tr_failed, tr_out>>
       \/ /\ tr_failed' = tr_failed \cup {"metrics"}
          /\ tr_out' = Caught(tr_response)
          /\ tr_pc' = "idle"
          /\ UNCHANGED tr_status
    /\ UNCHANGED <<tr_user, tr_response, tr_usage_id, usage_records,
                   analytics_records, tr_count>>
    /\ UNCHANGED exceptTracker

\* UsageCRUD.log_api_usage commits the row, or raises.
TrackerLogUsage ==
    /\ tr_pc = "log_usage"
    /\ \/ /\ tr_usage_id' = Cardinality(usage_records) + 1
          /\ usage_records' = usage_records \cup
                 {[id |-> Cardinality(usage_records) + 1,
                   user_id |-> tr_user, status_code |-> tr_status]}
          /\ tr_pc' = IF AnalyticsAllowed(tr_status) THEN "extract"
                      ELSE "return"
          /\ UNCHANGED <<tr_failed, tr_out>>
       \/ /\ tr_failed' = tr_failed \cup {"log_usage"}
          /\ tr_out' = Caught(tr_response)
          /\ tr_pc' = "idle"
          /\ UNCHANGED <<tr_usage_id, usage_records>>
    /\ UNCHANGED <<tr_user, tr_response, tr_status, analytics_records,
                   tr_count>>
    /\ UNCHANGED exceptTracker

\* _extract_analytics_data, then UsageCRUD.create_analytics.  The
\* API-specific extraction may raise: its except clause returns the base
\* data.  create_analytics commits the row, or raises.
TrackerAnalytics ==
    /\ tr_pc = "extract"
    /\ \E extraction_failed \in BOOLEAN :
          \/ /\ analytics_records' = analytics_records \cup
                    {[usage_id |-> tr_usage_id, user_id |-> tr_user,
                      complete |-> ~extraction_failed,
                      response |-> tr_response]}
             /\ tr_failed' = tr_failed \cup
                    (IF extraction_failed THEN {"extract"} ELSE {})
             /\ tr_pc' = "return"
             /\ UNCHANGED tr_out
          \/ /\ tr_failed' = tr_failed \cup {"create_analytics"} \cup
                    (IF extraction_failed THEN {"extract"} ELSE {})
             /\ tr_out' = Caught(tr_response)
             /\ tr_pc' = "idle"
             /\ UNCHANGED analytics_records
    /\ UNCHANGED <<tr_user, tr_response, tr_status, tr_usage_id,
                   usage_records, tr_count>>
    /\ UNCHANGED exceptTracker

\* "return response" after the tracking ran through.
TrackerReturn ==
    /\ tr_pc = "return"
    /\ tr_out' = [how |-> "returned", response |-> tr_response]
    /\ tr_pc' = "idle"
    /\ UNCHANGED <<tr_user, tr_response, tr_status, tr_usage_id, tr_failed,
                   usage_records, analytics_records, tr_count>>
    /\ UNCHANGED exceptTracker

NextTracker ==
    \/ \E user_id \in UserIds, response \in HandlerResponses :
          TrackerCall(user_id, response)
    \/ \E user_id \in UserIds : TrackerHandlerRaises(user_id)
    \/ TrackerMetrics
    \/ TrackerLogUsage
    \/ TrackerAnalytics
    \/ TrackerReturn

(***************************************************************************)
(* Travel time model and matrix builder (Services/MatrixServices.py)       *)
(*                                                                         *)
(* Lengths are in metres, times in milliseconds, speeds in km/h; the edge  *)
(* lengths and speeds of the model divide without remainder.               *)
(***************************************************************************)

MaxPathEdges == 3           \* edges of a path given to the travel time model

intersection_penalty == 15  \* seconds

congestion_tenths == 14     \* congestion_factor = 1.4, in tenths

\* speed_map of get_speed_by_road_type, in source order
SpeedMap ==
    << <<"motorway", 120>>, <<"trunk", 100>>, <<"primary", 90>>,
       <<"secondary", 80>>, <<"tertiary", 60>>, <<"residential", 40>>,
       <<"service", 30>>, <<"living_street", 20>>, <<"pedestrian", 5>>,
       <<"track", 30>>, <<"unclassified", 50>> >>

\* road_type in highway_type (substring test) for the highway tags of the
\* model
RoadTypeIn(road_type, highway_type) ==
    \/ highway_type = road_type
    \/ highway_type = "motorway_link" /\ road_type = "motorway"

\* get_speed_by_road_type: the first entry of the map that is contained in
\* the tag, else 50.
GetSpeedByRoadType(highway_type) ==
    LET hits == {k \in DOMAIN SpeedMap : RoadTypeIn(SpeedMap[k][1], highway_type)}
    IN  IF hits = {} THEN 50 ELSE SpeedMap[SetMin(hits)][2]

\* Edge data.  present: get_edge_data returned a non-empty dict; maxspeed:
\* <<>> when the edge has no maxspeed, else <<v>> for the number v.
EdgeKinds ==
    { [present |-> TRUE, length |-> 100, maxspeed |-> <<>>,
       highway |-> "residential"],
      [present |-> TRUE, length |-> 200, maxspeed |-> <<50>>,
       highway |-> "motorway"],
      [present |-> TRUE, length |-> 100, maxspeed |-> <<>>,
       highway |-> "motorway_link"],
      [present |-> TRUE, length |-> 100, maxspeed |-> <<>>,
       highway |-> "footway"],
      [present |-> TRUE, length |-> 100, maxspeed |-> <<0>>,
       highway |-> "service"],
      [present |-> FALSE, length |-> 0, maxspeed |-> <<>>,
       highway |-> ""] }

\* speed_kph of an edge: its maxspeed, else the speed of its road type
SpeedKph(edge) ==
    IF edge.maxspeed # <<>> THEN edge.maxspeed[1]
    ELSE GetSpeedByRoadType(edge.highway)

\* length / (speed_kph * 1000 / 3600), in milliseconds
TimeAtSpeed(length, speed_kph) == (length * 3600) \div speed_kph

\* What one iteration of the loop adds to total_time: nothing without edge
\* data; the division by a zero speed raises and the except clause adds the
\* time at 30 km/h.
SegmentTime(edge) ==
    IF ~edge.present THEN 0
    ELSE IF SpeedKph(edge) = 0 THEN TimeAtSpeed(edge.length, 30)
    ELSE TimeAtSpeed(edge.length, SpeedKph(edge))

\* What one iteration adds to total_distance.
SegmentLength(edge) == IF edge.present THEN edge.length ELSE 0

\* total_time after the loop over the edges of the path
RECURSIVE SumOfTimes(_)
SumOfTimes(edges) ==
    IF edges = <<>> THEN 0
    ELSE SumOfTimes(SubSeq(edges, 1, Len(edges) - 1))
             + SegmentTime(edges[Len(edges)])

\* total_distance after the loop
RECURSIVE SumOfLengths(_)
SumOfLengths(edges) ==
    IF edges = <<>> THEN 0
    ELSE SumOfLengths(SubSeq(edges, 1, Len(edges) - 1))
             + SegmentLength(edges[Len(edges)])

\* Mutant of AddDelays: the intersection delay is added before the
\* congestion factor is applied.
DelaysBeforeCongestion(total_time, intersection_time) ==
    ((total_time + intersection_time) * congestion_tenths) \div 10 + 20000

\* total_time *= congestion_factor; total_time += intersection_time + 20
AddDelays(total_time, intersection_time) ==
    (total_time * congestion_tenths) \div 10 + intersection_time + 20000

\* calculate_realistic_travel_time for a path of path_len nodes whose
\* consecutive pairs have the edge data `edges`; in milliseconds.
RealisticTravelTime(path_len, edges) ==
    IF path_len < 2 THEN 0
    ELSE LET num_intersections == path_len - 2
             intersection_time ==
                 IF num_intersections * intersection_penalty > 0
                 THEN num_intersections * intersection_penalty * 1000
                 ELSE 0
             summed == SumOfTimes(edges)
             total_distance == SumOfLengths(edges)
             total_time ==
                 IF summed = 0 /\ total_distance > 0
                 THEN TimeAtSpeed(total_distance, 25)
                 ELSE summed
         IN  AddDelays(total_time, intersection_time)

TimeOff ==
    /\ tt_path_len = 0
    /\ tt_edges = <<>>
    /\ tt_result = 0
    /\ tt_pc = "off"

\* A call with an empty path, a path of one node, or a longer path.
InitTime ==
    /\ tt_edges \in SeqsUpTo(EdgeKinds, MaxPathEdges)
    /\ tt_path_len \in (IF tt_edges = <<>> THEN {0, 1} ELSE {Len(tt_edges) + 1})
    /\ tt_result = 0
    /\ tt_pc = "called"

TimeReturn ==
    /\ tt_pc = "called"
    /\ tt_result' = RealisticTravelTime(tt_path_len, tt_edges)
    /\ tt_pc' = "returned"
    /\ UNCHANGED <<tt_path_len, tt_edges>>
    /\ UNCHANGED exceptTime

NextTime == TimeReturn

\* ---- precompute_distance_matrix ----
\* Indices are 1-based here (0-based in the source).

GraphNodes == {1, 2, 3}     \* node ids of the graphs of the model

\* The directed edges a graph of the model can have, with their length.
\* No two paths between the same two nodes have the same length.
CandidateEdges ==
    { <<1, 2, 100>>, <<2, 3, 100>>, <<1, 3, 300>>, <<3, 1, 100>>,
      <<2, 1, 300>> }

\* Node lists handed to the builder; 9 is not a node of the graph.
NodeLists == { <<1, 2, 3>>, <<3, 1>>, <<2, 9>>, <<9, 1, 2>> }

\* Node attribute 'y' of the three nodes, in 1e-3 degree: <<>> when the
\* attribute is missing.  ('x' is the same non-zero value on every node.)
LatitudeLayouts ==
    { <<<<41000>>, <<41002>>, <<41005>>>>,
      <<<<0>>, <<2>>, <<5>>>>,
      <<<<41000>>, <<41002>>, <<>>>> }

EdgeLength(graph, u, v) ==
    (CHOOSE e \in graph : e[1] = u /\ e[2] = v)[3]

HasEdge(graph, u, v) == \E e \in graph : e[1] = u /\ e[2] = v

\* The simple paths of the graph from source to target, as node sequences.
PathsBetween(graph, source, target) ==
    {p \in UNION {[1..k -> GraphNodes] : k \in 1..Cardinality(GraphNodes)} :
        /\ p[1] = source
        /\ p[Len(p)] = target
        /\ \A a \in DOMAIN p, b \in DOMAIN p : a # b => p[a] # p[b]
        /\ \A a \in 1..(Len(p) - 1) : HasEdge(graph, p[a], p[a + 1])}

RECURSIVE PathLength(_, _)
PathLength(graph, p) ==
    IF Len(p) < 2 THEN 0
    ELSE EdgeLength(graph, p[1], p[2]) + PathLength(graph, Tail(p))

\* The paths Dijkstra by 'length' can report for the pair.
ShortestPaths(graph, source, target) ==
    {p \in PathsBetween(graph, source, target) :
        \A q \in PathsBetween(graph, source, target) :
            PathLength(graph, p) <= PathLength(graph, q)}

\* Edge data of the edges of the model's graphs.
EdgeData(graph, u, v) ==
    [present |-> TRUE, length |-> EdgeLength(graph, u, v),
     maxspeed |-> <<>>, highway |-> "residential"]

PathEdges(graph, p) ==
    [a \in 1..(Len(p) - 1) |-> EdgeData(graph, p[a], p[a + 1])]

\* geodesic(...).meters of two nodes on one meridian: 111 m per 1e-3 degree
StraightDistance(lat_a, lat_b) ==
    111 * (IF lat_a >= lat_b THEN lat_a - lat_b ELSE lat_b - lat_a)

\* "if source_lat and source_lon and target_lat and target_lon", for one
\* node: the attribute is there and is not 0.
Truthy(lat) == lat # <<>> /\ lat[1] # 0

\* The entries <<distance, time>> a pair gets from a shortest path.
PathEntries(graph, source, target) ==
    {<<PathLength(graph, p),
       RealisticTravelTime(Len(p), PathEdges(graph, p))>> :
        p \in ShortestPaths(graph, source, target)}

Reachable(graph, source, target) ==
    /\ source \in GraphNodes
    /\ target \in GraphNodes
    /\ PathsBetween(graph, source, target) # {}

\* The entry a pair gets in the great-circle fallback: graph.nodes[node]
\* raises for a node that is not in the graph and the entry is kept, as it
\* is when a coordinate is missing or 0.
StraightEntry(lat, source, target, kept) ==
    IF /\ source \in GraphNodes
       /\ target \in GraphNodes
       /\ Truthy(lat[source])
       /\ Truthy(lat[target])
    THEN <<StraightDistance(lat[source][1], lat[target][1]),
           TimeAtSpeed(StraightDistance(lat[source][1], lat[target][1]), 25)>>
    ELSE kept

Indices == 1..Len(mx_nodes)

MatrixOff ==
    /\ mx_graph = {}
    /\ mx_lat = <<>>
    /\ mx_nodes = <<>>
    /\ distance_matrix = <<>>
    /\ time_matrix = <<>>
    /\ mx_i = 0
    /\ mx_faults = 0
    /\ mx_pc = "off"

\* np.full((n, n), float('inf')), twice
InitMatrix ==
    /\ mx_graph \in SUBSET CandidateEdges
    /\ mx_lat \in LatitudeLayouts
    /\ mx_nodes \in NodeLists
    /\ distance_matrix =
           [ij \in (1..Len(mx_nodes)) \X (1..Len(mx_nodes)) |-> Inf]
    /\ time_matrix =
           [ij \in (1..Len(mx_nodes)) \X (1..Len(mx_nodes)) |-> Inf]
    /\ mx_i = 1
    /\ mx_faults = 0
    /\ mx_pc = "batch"

\* The entry of a reachable pair (the shortest path is unique).
PathEntry(graph, source, target) ==
    CHOOSE e \in PathEntries(graph, source, target) : TRUE

\* The matrices as a function on index pairs to <<distance, time>>.
Entries == [ij \in DOMAIN distance_matrix |->
               <<distance_matrix[ij], time_matrix[ij]>>]

SetEntries(entries) ==
    /\ distance_matrix' = [ij \in DOMAIN entries |-> entries[ij][1]]
    /\ time_matrix' = [ij \in DOMAIN entries |-> entries[ij][2]]

\* After source i: the next source, or the end of the batch loop.
NextSource ==
    /\ mx_i' = mx_i + 1
    /\ mx_pc' = IF mx_i = Len(mx_nodes) THEN "diagonal" ELSE "batch"

\* One source of the batch loop: single_source_dijkstra returns and every
\* target in `lengths` gets its entries; the others are left as they are.
MxBatchRow ==
    /\ mx_pc = "batch"
    /\ mx_i \in Indices
    /\ mx_nodes[mx_i] \in GraphNodes
    /\ SetEntries([ij \in DOMAIN distance_matrix |->
           IF ij[1] = mx_i /\ Reachable(mx_graph, mx_nodes[mx_i], mx_nodes[ij[2]])
           THEN PathEntry(mx_graph, mx_nodes[mx_i], mx_nodes[ij[2]])
           ELSE Entries[ij]])
    /\ NextSource
    /\ UNCHANGED <<mx_graph, mx_lat, mx_nodes, mx_faults>>
    /\ UNCHANGED exceptMatrix

\* The targets for which nx.shortest_path raises NodeNotFound.
NotFoundTargets(i) ==
    {j \in Indices \ {i} :
        mx_nodes[i] \notin GraphNodes \/ mx_nodes[j] \notin GraphNodes}

\* One source for which single_source_dijkstra raises (the source is not in
\* the graph, or another error): "Fallback to computing individual paths".
\* The pairs get a path, or after NetworkXNoPath the straight-line entry; an
\* error other than NetworkXNoPath leaves the handler and ends the batch
\* loop in the outer except clause.
MxRowFallback ==
    /\ mx_pc = "batch"
    /\ mx_i \in Indices
    /\ IF mx_nodes[mx_i] \in GraphNodes
       THEN mx_faults < MaxFaults /\ mx_faults' = mx_faults + 1
       ELSE UNCHANGED mx_faults
    /\ LET stop == IF NotFoundTargets(mx_i) = {} THEN Len(mx_nodes) + 1
                   ELSE SetMin(NotFoundTargets(mx_i))
       IN  /\ SetEntries([ij \in DOMAIN distance_matrix |->
                  IF ij[1] = mx_i /\ ij[2] # mx_i /\ ij[2] < stop
                  THEN IF Reachable(mx_graph, mx_nodes[mx_i], mx_nodes[ij[2]])
                       THEN PathEntry(mx_graph, mx_nodes[mx_i], mx_nodes[ij[2]])
                       ELSE StraightEntry(mx_lat, mx_nodes[mx_i],
                                          mx_nodes[ij[2]], Entries[ij])
                  ELSE Entries[ij]])
           /\ IF NotFoundTargets(mx_i) = {}
              THEN NextSource
              ELSE mx_pc' = "outer" /\ UNCHANGED mx_i
    /\ UNCHANGED <<mx_graph, mx_lat, mx_nodes>>
    /\ UNCHANGED exceptMatrix

\* "Fallback to individual path computation" for every pair: a path, or
\* after any error the straight-line entry.
MxOuterFallback ==
    /\ mx_pc = "outer"
    /\ SetEntries([ij \in DOMAIN distance_matrix |->
           IF ij[1] = ij[2] THEN Entries[ij]
           ELSE IF Reachable(mx_graph, mx_nodes[ij[1]], mx_nodes[ij[2]])
           THEN PathEntry(mx_graph, mx_nodes[ij[1]], mx_nodes[ij[2]])
           ELSE StraightEntry(mx_lat, mx_nodes[ij[1]], mx_nodes[ij[2]],
                              Entries[ij])])
    /\ mx_pc' = "diagonal"
    /\ UNCHANGED <<mx_graph, mx_lat, mx_nodes, mx_i, mx_faults>>
    /\ UNCHANGED exceptMatrix

\* Mutant of ZeroDiagonal: the diagonal is left as the loops left it.
DiagonalKept(entries) == entries

\* "Set diagonal to 0 (distance to self)"
ZeroDiagonal(entries) ==
    [ij \in DOMAIN entries |->
        IF ij[1] = ij[2] THEN <<0, 0>> ELSE entries[ij]]

\* The diagonal is set, and the matrices are returned.
MxDiagonal ==
    /\ mx_pc = "diagonal"
    /\ SetEntries(ZeroDiagonal(Entries))
    /\ mx_pc' = "returned"
    /\ UNCHANGED <<mx_graph, mx_lat, mx_nodes, mx_i, mx_faults>>
    /\ UNCHANGED exceptMatrix

NextMatrix ==
    \/ MxBatchRow
    \/ MxRowFallback
    \/ MxOuterFallback
    \/ MxDiagonal

(***************************************************************************)
(* Transport-mode normalisation: validate_transport_mode                   *)
(* (Services/DirectionsServices.py) and its use by the directions handlers *)
(* (Routes/Directions/DirectionsApi.py).                                   *)
(*                                                                         *)
(* A string is a sequence of one-character strings.                        *)
(***************************************************************************)

UpperLetters ==
    <<"A", "B", "C", "D", "E", "F", "G", "H", "I", "J", "K", "L", "M",
      "N", "O", "P", "Q", "R", "S", "T", "U", "V", "W", "X", "Y", "Z">>

LowerLetters ==
    <<"a", "b", "c", "d", "e", "f", "g", "h", "i", "j", "k", "l", "m",
      "n", "o", "p", "q", "r", "s", "t", "u", "v", "w", "x", "y", "z">>

Whitespace == {" ", "\t", "\n"}

LowerChar(c) ==
    IF \E k \in DOMAIN UpperLetters : UpperLetters[k] = c
    THEN LowerLetters[CHOOSE k \in DOMAIN UpperLetters : UpperLetters[k] = c]
    ELSE c

UpperChar(c) ==
    IF \E k \in DOMAIN LowerLetters : LowerLetters[k] = c
    THEN UpperLetters[CHOOSE k \in DOMAIN LowerLetters : LowerLetters[k] = c]
    ELSE c

\* str.lower()
Lower(s) == [k \in DOMAIN s |-> LowerChar(s[k])]

\* str.upper()
Upper(s) == [k \in DOMAIN s |-> UpperChar(s[k])]

\* str.capitalize() of a lower-case word
Capitalize(s) == [k \in DOMAIN s |-> IF k = 1 THEN UpperChar(s[k]) ELSE s[k]]

\* str.strip()
Strip(s) ==
    LET inked == {k \in DOMAIN s : s[k] \notin Whitespace}
    IN  IF inked = {} THEN <<>>
        ELSE SubSeq(s, SetMin(inked), SetMax(inked))

Driving == <<"d", "r", "i", "v", "i", "n", "g">>

Foot == <<"f", "o", "o", "t">>

Bike == <<"b", "i", "k", "e">>

\* keys of OSRM_SERVERS
OsrmServers == {Driving, Foot, Bike}

\* mode_aliases
ModeAliases ==
    { << <<"c", "a", "r">>, Driving >>,
      << <<"d", "r", "i", "v", "e">>, Driving >>,
      << <<"a", "u", "t", "o">>, Driving >>,
      << <<"w", "a", "l", "k">>, Foot >>,
      << <<"w", "a", "l", "k", "i", "n", "g">>, Foot >>,
      << <<"p", "e", "d", "e", "s", "t", "r", "i", "a", "n">>, Foot >>,
      << <<"c", "y", "c", "l", "e">>, Bike >>,
      << <<"c", "y", "c", "l", "i", "n", "g">>, Bike >>,
      << <<"b", "i", "c", "y", "c", "l", "e">>, Bike >>}

AliasNames == {a[1] : a \in ModeAliases}

\* mode_aliases.get(mode, mode)
AliasGet(mode) ==
    IF mode \in AliasNames
    THEN (CHOOSE a \in ModeAliases : a[1] = mode)[2]
    ELSE mode

\* A JSON value given as transport_mode: a string, null, a number or a
\* boolean.
StrValue(s) == [kind |-> "str", chars |-> s]

NullValue == [kind |-> "null", chars |-> <<>>]

NumberValue(n) == [kind |-> "number", chars |-> <<n>>]

\* "if not mode": None, "", 0
Falsy(mode) ==
    \/ mode.kind = "null"
    \/ mode.kind = "str" /\ mode.chars = <<>>
    \/ mode.kind = "number" /\ mode.chars = <<0>>

\* validate_transport_mode: the normalised mode, or the error it raises
\* (a value that is no string has no method lower()).
ValidateTransportMode(mode) ==
    IF Falsy(mode) THEN [outcome |-> "ok", mode |-> StrValue(Driving)]
    ELSE IF mode.kind # "str"
    THEN [outcome |-> "AttributeError", mode |-> NullValue]
    ELSE LET normalized_mode == AliasGet(Strip(Lower(mode.chars)))
         IN  IF normalized_mode \notin OsrmServers
             THEN [outcome |-> "ValueError", mode |-> NullValue]
             ELSE [outcome |-> "ok", mode |-> StrValue(normalized_mode)]

\* The handlers: ValueError is answered with 400, any other exception by
\* the outer except clause with 500; else the route is computed.
HandlerStatus(outcome) ==
    IF outcome = "ok" THEN "proceed"
    ELSE IF outcome = "ValueError" THEN "400"
    ELSE "500"

\* Words the requests of the model are made of: the canonical modes, the
\* aliases and words that are neither.
ModeWords ==
    OsrmServers \cup AliasNames
        \cup { <<"u", "f", "o">>, <<"b", "u", "s">>,
               <<"w", "a", "l", "k", "s">>, <<>> }

\* transport_mode of a request: a word as it is, in capitals, capitalised,
\* or with blanks around it; or a value that is no string.
ModeInputs ==
    {StrValue(w) : w \in ModeWords}
        \cup {StrValue(Upper(w)) : w \in ModeWords}
        \cup {StrValue(Capitalize(w)) : w \in ModeWords}
        \cup {StrValue(<<" ">> \o w) : w \in ModeWords}
        \cup {StrValue(w \o <<" ", "\n">>) : w \in ModeWords}
        \cup {NullValue, NumberValue(0), NumberValue(5)}

ModeOff ==
    /\ md_input = NullValue
    /\ md_mode = NullValue
    /\ md_status = "none"
    /\ md_pc = "off"

InitMode ==
    /\ md_input \in ModeInputs
    /\ md_mode = NullValue
    /\ md_status = "none"
    /\ md_pc = "received"

\* "Validate transport mode" in the handler
ModeValidate ==
    /\ md_pc = "received"
    /\ LET v == ValidateTransportMode(md_input)
       IN  /\ md_mode' = v.mode
           /\ md_status' = HandlerStatus(v.outcome)
           /\ md_pc' = IF v.outcome = "ok" THEN "validated" ELSE "answered"
    /\ UNCHANGED md_input
    /\ UNCHANGED exceptMode

\* get_route_directions validates data['transport_mode'] again.
ModeRevalidate ==
    /\ md_pc = "validated"
    /\ LET v == ValidateTransportMode(md_mode)
       IN  /\ md_mode' = v.mode
           /\ md_status' = HandlerStatus(v.outcome)
           /\ md_pc' = IF v.outcome = "ok" THEN "routing" ELSE "answered"
    /\ UNCHANGED md_input
    /\ UNCHANGED exceptMode

NextMode ==
    \/ ModeValidate
    \/ ModeRevalidate

(***************************************************************************)
(* Isochrones: calculate_isochrone and calculate_isochrone_cached          *)
(* (Services/IsochroneServices.py)                                         *)
(*                                                                         *)
(* Travel times are integers: minutes in the request, seconds on the       *)
(* graph.  The graph is given by the travel time of the shortest path from *)
(* the origin to each of its nodes and by the position of each node.       *)
(***************************************************************************)

MaxCutoffs == 2             \* travel times per request

\* The nodes of the graph; node 1 is the origin node.
IsoNodes == 1..5

\* travel_times of a request, in minutes
TravelMinutes == {2, 5, 10}

\* Shortest travel time from the origin to a node, in seconds.
PathSeconds == {120, 400, 700}

\* A node the origin has no path to.
Unreached == 0 - 1

\* Positions <<x, y>> of the nodes: in general position, all on one line,
\* and on three spots only.
NodeLayouts ==
    { [n \in IsoNodes |-> <<n, n * n>>],
      [n \in IsoNodes |-> <<n, 2 * n>>],
      [n \in IsoNodes |-> <<n \div 2, (n \div 2) * (n \div 2)>>] }

\* Mutant of Sorted: the sequence as it is given.
Unsorted(s) == s

\* sorted(...)
Sorted(s) == SortSeq(s, LAMBDA a, b : a < b)

\* tuple(sorted(travel_times)) of calculate_isochrone
TravelTimesTuple(travel_times) == Sorted(travel_times)

\* travel_times_seconds = [t * 60 for t in travel_times]
TravelTimesSeconds(travel_times_tuple) ==
    [k \in DOMAIN travel_times_tuple |-> travel_times_tuple[k] * 60]

\* times: the nodes within max(travel_times_seconds) of the origin, with
\* their travel time (ego_graph with that radius, or Dijkstra with that
\* cutoff)
DijkstraTimes(seconds, thresholds) ==
    LET within == {n \in IsoNodes :
                      /\ seconds[n] # Unreached
                      /\ seconds[n] <= SetMax(Range(thresholds))}
    IN  [n \in within |-> seconds[n]]

\* reachable_nodes = [node for node, time in times.items()
\*                    if time <= time_threshold]
ReachableNodes(times, time_threshold) ==
    {n \in DOMAIN times : times[n] <= time_threshold}

\* Twice the signed area of the triangle of three positions.
Cross(a, b, c) ==
    (b[1] - a[1]) * (c[2] - a[2]) - (b[2] - a[2]) * (c[1] - a[1])

\* isinstance(convex_hull, Polygon) and not convex_hull.is_empty: the hull
\* of points that are not all on one line.
HullIsPolygon(points, nodes) ==
    \E a \in nodes, b \in nodes, c \in nodes :
        Cross(points[a], points[b], points[c]) # 0

\* The record appended to isochrones for a threshold.
IsochroneRecord(time_threshold, reachable_nodes) ==
    [travel_time_minutes |-> time_threshold \div 60,
     reachable_nodes |-> Cardinality(reachable_nodes)]

IsoOff ==
    /\ iso_seconds = <<>>
    /\ iso_points = <<>>
    /\ travel_times_seconds = <<>>
    /\ iso_k = 0
    /\ isochrones = <<>>
    /\ iso_pc = "off"

\* calculate_isochrone is called and the graph is there: the state when the
\* loop over the thresholds is entered.
InitIso ==
    /\ iso_seconds \in
           {s \in [IsoNodes -> PathSeconds \cup {0, Unreached}] :
               \A n \in IsoNodes : s[n] = 0 <=> n = 1}
    /\ iso_points \in NodeLayouts
    /\ \E k \in 1..MaxCutoffs : \E travel_times \in [1..k -> TravelMinutes] :
           travel_times_seconds =
               TravelTimesSeconds(TravelTimesTuple(travel_times))
    /\ iso_k = 0
    /\ isochrones = <<>>
    /\ iso_pc = "loop"

\* One iteration of "for time_threshold in sorted(travel_times_seconds)":
\* the threshold is skipped when fewer than three nodes are reachable, when
\* the hull is no polygon or when building the hull raises.
IsoThreshold ==
    /\ iso_pc = "loop"
    /\ iso_k < Len(travel_times_seconds)
    /\ iso_k' = iso_k + 1
    /\ LET time_threshold == Sorted(travel_times_seconds)[iso_k + 1]
           times == DijkstraTimes(iso_seconds, travel_times_seconds)
           reachable_nodes == ReachableNodes(times, time_threshold)
       IN  IF Cardinality(reachable_nodes) < 3
              \/ ~HullIsPolygon(iso_points, reachable_nodes)
           THEN UNCHANGED isochrones
           ELSE \/ isochrones' =
                       Append(isochrones,
                              IsochroneRecord(time_threshold, reachable_nodes))
                \/ UNCHANGED isochrones
    /\ UNCHANGED <<iso_seconds, iso_points, travel_times_seconds, iso_pc>>
    /\ UNCHANGED exceptIso

\* The loop is over: the result with 'isochrones' is returned.
IsoReturn ==
    /\ iso_pc = "loop"
    /\ iso_k = Len(travel_times_seconds)
    /\ iso_pc' = "returned"
    /\ UNCHANGED <<iso_seconds, iso_points, travel_times_seconds, iso_k,
                   isochrones>>
    /\ UNCHANGED exceptIso

NextIso ==
    \/ IsoThreshold
    \/ IsoReturn

(***************************************************************************)
(* The route of plain locations: solve_tsp_optimized                       *)
(* (Services/MatrixServices.py)                                            *)
(*                                                                         *)
(* Locations are indexed from 0 as in the code; index 0 is the first       *)
(* location of the request.                                                *)
(***************************************************************************)

MaxLocations == 3           \* locations per request

\* Distances between two different nodes, in metres.
TspDistances == {100, 200}

\* The number of names line 752 unpacks the result of
\* precompute_distance_matrix into.
unpack_targets == 2

TspIndices(n) == 0..(n - 1)

\* next_node_idx = None: no next node
NoNextNode == 0 - 1

\* What precompute_distance_matrix returns for n nodes: the tuple
\* (distance_matrix, paths_matrix, time_matrix), the diagonals zero.
PrecomputeReturns(n) ==
    { <<dm, [p \in TspIndices(n) \X TspIndices(n) |-> "path"],
        [p \in TspIndices(n) \X TspIndices(n) |-> dm[p] \div 10]>> :
        dm \in { m \in [TspIndices(n) \X TspIndices(n) -> TspDistances \cup {0}] :
                   \A i, j \in TspIndices(n) : (m[<<i, j>>] = 0) <=> (i = j) } }

\* The scan of the unvisited indices: the first index whose distance is
\* below every distance before it (a set of small integers is iterated in
\* increasing order); NoNextNode when no distance is below infinity.
NearestUnvisited(dist, from_idx, remaining) ==
    LET below == { j \in remaining :
                     dist[<<from_idx, j>>] < Inf }
        least == { j \in below :
                     \A k \in below :
                        dist[<<from_idx, j>>]
                            <= dist[<<from_idx, k>>] }
    IN  IF below = {} THEN NoNextNode
        ELSE CHOOSE j \in least : \A k \in least : j <= k

\* The while loop: the route grown until nothing is unvisited or no next
\* node is found.
RECURSIVE TspLoop(_, _, _)
TspLoop(dist, visited, remaining) ==
    IF remaining = {} THEN visited
    ELSE LET next_node_idx ==
                 NearestUnvisited(dist, visited[Len(visited)], remaining)
         IN  IF next_node_idx = NoNextNode THEN visited
             ELSE TspLoop(dist, Append(visited, next_node_idx),
                          remaining \ {next_node_idx})

\* The dict of the except handler.
TspError == [error |-> TRUE, optimal_route |-> <<>>]

\* The dict of a finished calculation.
TspAnswer(visited) == [error |-> FALSE, optimal_route |-> visited]

TspOff ==
    /\ tsp_returned = <<>>
    /\ tsp_route = <<>>
    /\ tsp_result = "none"
    /\ tsp_pc = "off"

InitTsp ==
    /\ tsp_returned \in UNION { PrecomputeReturns(n) : n \in 1..MaxLocations }
    /\ tsp_route = <<>>
    /\ tsp_result = "none"
    /\ tsp_pc = "start"

\* Lines 752-816: the result of precompute_distance_matrix is unpacked, and
\* the loop runs on the distance matrix.  Unpacking a tuple of another
\* length raises ValueError.
TspSolve ==
    /\ tsp_pc = "start"
    /\ IF Len(tsp_returned) = unpack_targets
       THEN LET dist == tsp_returned[1]
                num_nodes == Cardinality({ p[1] : p \in DOMAIN dist })
            IN  /\ tsp_route' = TspLoop(dist, <<0>>, 1..(num_nodes - 1))
                /\ tsp_pc' = "solved"
       ELSE /\ tsp_route' = tsp_route
            /\ tsp_pc' = "raised"
    /\ UNCHANGED <<tsp_returned, tsp_result>>
    /\ UNCHANGED exceptTsp

\* Lines 818-890: the result of the calculation, or the dict of the except
\* handler.
TspReturn ==
    /\ tsp_pc \in {"solved", "raised"}
    /\ tsp_result' = IF tsp_pc = "raised" THEN TspError ELSE TspAnswer(tsp_route)
    /\ tsp_pc' = "returned"
    /\ UNCHANGED <<tsp_returned, tsp_route>>
    /\ UNCHANGED exceptTsp

NextTsp ==
    \/ TspSolve
    \/ TspReturn

(***************************************************************************)
(* The coordinate checks of the request handlers (Routes/Directions,       *)
(* Routes/Matrix, Routes/Isochrone, Routes/Geocoding)                      *)
(*                                                                         *)
(* Coordinates are whole degrees.  The requests are well-formed but for    *)
(* the values of their coordinates.                                        *)
(***************************************************************************)

MaxPoints == 3              \* coordinate pairs per request

Latitudes == {0 - 91, 0 - 90, 41, 91}

Longitudes == {0 - 181, 0 - 180, 21, 181}

IsochroneEndpoints ==
    {"isochrone/calculate", "isochrone/geojson", "isochrone/compare",
     "isochrone/stats", "isochrone/batch"}

DirectionsEndpoints ==
    {"directions/route", "directions/simple", "directions/route_pdp"}

GeocodingEndpoints == {"geocoding/reverse", "geocoding/details"}

MatrixEndpoints == {"matrix/calculate"}

\* How many coordinate pairs a well-formed request of the endpoint carries:
\* one point; the locations of a batch; two or more waypoints; origin and
\* destination; the current location and the locations.
PointCounts(endpoint) ==
    CASE endpoint = "isochrone/batch" -> 1..MaxPoints
      [] endpoint = "directions/route" -> 2..MaxPoints
      [] endpoint = "directions/simple" -> {2}
      [] endpoint = "directions/route_pdp" -> 3..MaxPoints
      [] endpoint = "matrix/calculate" -> 1..MaxPoints
      [] OTHER -> {1}

\* validate_coordinates for numbers, and the test the directions and
\* geocoding handlers write out: -90 <= lat <= 90 and -180 <= lng <= 180.
ValidateCoordinates(lat, lon) ==
    /\ 0 - 90 <= lat /\ lat <= 90
    /\ 0 - 180 <= lon /\ lon <= 180

\* The loop over the coordinate pairs of a request: every pair passes.
AllValid(points) ==
    \A k \in DOMAIN points : ValidateCoordinates(points[k][1], points[k][2])

EndpointOff ==
    /\ ep_name = "none"
    /\ ep_points = <<>>
    /\ ep_status = 0
    /\ ep_pc = "off"

InitEndpoint ==
    /\ ep_name \in IsochroneEndpoints \cup DirectionsEndpoints
                     \cup GeocodingEndpoints \cup MatrixEndpoints
    /\ ep_points \in UNION { [1..n -> Latitudes \X Longitudes] :
                               n \in PointCounts(ep_name) }
    /\ ep_status = 0
    /\ ep_pc = "received"

\* The response 400 of a failed check, or the start of the calculation.
CheckedStart(valid) ==
    /\ ep_pc' = IF valid THEN "computing" ELSE "rejected"
    /\ ep_status' = IF valid THEN 0 ELSE 400
    /\ UNCHANGED <<ep_name, ep_points>>

\* get_isochrones, get_isochrones_geojson, compare_isochrones,
\* get_isochrone_stats, batch_isochrones
IsochroneHandler ==
    /\ ep_pc = "received"
    /\ ep_name \in IsochroneEndpoints
    /\ CheckedStart(AllValid(ep_points))
    /\ UNCHANGED exceptEndpoint

\* calculate_route, calculate_simple_route, calculate_route_pdp
DirectionsHandler ==
    /\ ep_pc = "received"
    /\ ep_name \in DirectionsEndpoints
    /\ CheckedStart(AllValid(ep_points))
    /\ UNCHANGED exceptEndpoint

\* reverse, location_details
GeocodingHandler ==
    /\ ep_pc = "received"
    /\ ep_name \in GeocodingEndpoints
    /\ CheckedStart(AllValid(ep_points))
    /\ UNCHANGED exceptEndpoint

\* calculate_matrix: the fields of the locations are tested for presence
\* only, and calculate_optimal_route is called.
MatrixHandler ==
    /\ ep_pc = "received"
    /\ ep_name \in MatrixEndpoints
    /\ CheckedStart(TRUE)
    /\ UNCHANGED exceptEndpoint

NextEndpoint ==
    \/ IsochroneHandler
    \/ DirectionsHandler
    \/ GeocodingHandler
    \/ MatrixHandler

(***************************************************************************)
(* The lock of the graph cache: which steps of GraphCache and of the cache *)
(* handlers run inside "with self.lock" (Services/IsochroneServices.py,    *)
(* Routes/Isochrone/IsochroneApi.py)                                       *)
(*                                                                         *)
(* A call is the sequence of its steps that touch the lock, the shared     *)
(* structures or the graph files, in program order, for one way through    *)
(* the branches of the code; `line` is the source line of the step.        *)
(***************************************************************************)

MaxLockCalls == 1           \* calls per thread

\* A request thread, the background downloader, and the thread of a request
\* for the cache status or for clearing the cache.
LockThreads == {"r1", "w", "h"}

Acquire(line) == [op |-> "acquire", what |-> "lock", line |-> line]

Release(line) == [op |-> "release", what |-> "lock", line |-> line]

Read(structure, line) == [op |-> "read", what |-> structure, line |-> line]

Write(structure, line) == [op |-> "write", what |-> structure, line |-> line]

\* A network fetch or an operation on graph files.
Io(what, line) == [op |-> "io", what |-> what, line |-> line]

NoStep == [op |-> "none", what |-> "none", line |-> 0]

\* _manage_memory_cache: below the limit, or the eviction.
ManageSteps ==
    { <<Acquire(128), Read("memory_cache", 129), Release(135)>>,
      <<Acquire(128), Read("memory_cache", 129),
        Read("cache_access_times", 131), Write("memory_cache", 133),
        Write("cache_access_times", 134), Release(135)>> }

\* _load_from_disk when it returns None: no file, or a file that does not
\* load and is removed.
LoadNoneSteps ==
    { <<Io("exists", 86)>>,
      <<Io("exists", 86), Io("load", 89), Io("remove", 95)>> }

\* _load_from_disk when it returns the graph.
LoadSteps == <<Io("exists", 86), Io("load", 89)>>

\* _get_nearby_graph
NearbySteps ==
    <<Acquire(238), Read("memory_cache", 242), Release(260)>>

\* _queue_nearby_downloads: the test of one neighbour (the tests of the
\* others are the same steps again).
QueueNearbySteps ==
    <<Read("memory_cache", 276), Io("exists", 277),
      Read("download_in_progress", 278)>>

\* get_graph: the lookup in memory that misses
MemoryMissSteps ==
    <<Acquire(177), Read("memory_cache", 179), Release(182)>>

\* get_graph: "Check if download is in progress", not in progress
NotInProgressSteps ==
    <<Acquire(194), Read("download_in_progress", 195), Release(198)>>

\* get_graph: the ways through it.
GetGraphSteps ==
    { <<Acquire(177), Read("memory_cache", 179),
        Write("cache_access_times", 180), Read("memory_cache", 182),
        Release(182)>> }
    \cup { MemoryMissSteps \o LoadSteps \o <<Acquire(187)>> \o m
              \o <<Write("memory_cache", 189),
                   Write("cache_access_times", 190), Release(190)>> :
           m \in ManageSteps }
    \cup { MemoryMissSteps \o d
              \o <<Acquire(194), Read("download_in_progress", 195)>>
              \o NearbySteps \o <<Release(198)>> :
           d \in LoadNoneSteps }
    \cup { MemoryMissSteps \o d \o NotInProgressSteps
              \o <<Io("fetch", 205)>> :
           d \in LoadNoneSteps }
    \cup { MemoryMissSteps \o d \o NotInProgressSteps
              \o <<Io("fetch", 205), Io("save", 219), Acquire(222)>> \o m
              \o <<Write("memory_cache", 224),
                   Write("cache_access_times", 225), Release(225)>>
              \o QueueNearbySteps :
           d \in LoadNoneSteps, m \in ManageSteps }

\* _download_graph_background: the end of every way past the first test
DiscardSteps ==
    <<Acquire(170), Write("download_in_progress", 171), Release(171)>>

\* _download_graph_background: the key is in progress already; the fetch
\* fails; the memory cache is full; the graph is added.
DownloadBackgroundSteps ==
    LET begin == <<Acquire(141), Read("download_in_progress", 142),
                   Write("download_in_progress", 144), Release(144)>>
    IN  { <<Acquire(141), Read("download_in_progress", 142), Release(143)>>,
          begin \o <<Io("fetch", 148)>> \o DiscardSteps,
          begin \o <<Io("fetch", 148), Io("save", 159), Acquire(162),
                     Read("memory_cache", 163), Release(165)>>
                \o DiscardSteps,
          begin \o <<Io("fetch", 148), Io("save", 159), Acquire(162),
                     Read("memory_cache", 163), Write("memory_cache", 164),
                     Write("cache_access_times", 165), Release(165)>>
                \o DiscardSteps }

\* get_cache_status
CacheStatusSteps ==
    <<Read("memory_cache", 583), Read("memory_cache", 585),
      Read("download_in_progress", 593), Io("listdir", 600)>>

\* clear_cache: memory, memory and disk, disk.
ClearCacheSteps ==
    LET in_memory == <<Acquire(624), Read("memory_cache", 625),
                    Write("memory_cache", 626),
                    Write("cache_access_times", 627), Release(628)>>
        on_disk == <<Io("listdir", 632), Io("remove", 634)>>
    IN  { in_memory, in_memory \o on_disk, on_disk }

\* The calls a thread makes.
CallsOf(t) ==
    CASE t = "r1" -> GetGraphSteps
      [] t = "w" -> DownloadBackgroundSteps
      [] OTHER -> {CacheStatusSteps} \cup ClearCacheSteps

\* Mutant of Released: leaving the with block does not give the lock back.
StillHeld(depth) == depth

\* The RLock after the end of a with block.
Released(depth) == depth - 1

LockOff ==
    /\ lk_todo = <<>>
    /\ lk_done = <<>>
    /\ lk_calls = <<>>
    /\ lk_owner = "none"
    /\ lk_depth = 0

InitLock ==
    /\ lk_todo = [t \in LockThreads |-> <<>>]
    /\ lk_done = [t \in LockThreads |-> NoStep]
    /\ lk_calls = [t \in LockThreads |-> 0]
    /\ lk_owner = "none"
    /\ lk_depth = 0

\* The thread does the first of its steps.
StepDone(t) ==
    /\ lk_done' = [lk_done EXCEPT ![t] = Head(lk_todo[t])]
    /\ lk_todo' = [lk_todo EXCEPT ![t] = Tail(lk_todo[t])]
    /\ UNCHANGED lk_calls

\* A thread that is in no call starts one.
LockCall(t) ==
    /\ lk_todo[t] = <<>>
    /\ lk_calls[t] < MaxLockCalls
    /\ \E steps \in CallsOf(t) : lk_todo' = [lk_todo EXCEPT ![t] = steps]
    /\ lk_done' = [lk_done EXCEPT ![t] = NoStep]
    /\ lk_calls' = [lk_calls EXCEPT ![t] = @ + 1]
    /\ UNCHANGED <<lk_owner, lk_depth>>
    /\ UNCHANGED exceptLock

\* "with self.lock:" is entered: the lock is free, or the thread holds it.
LockAcquire(t) ==
    /\ lk_todo[t] # <<>>
    /\ Head(lk_todo[t]).op = "acquire"
    /\ lk_owner \in {"none", t}
    /\ lk_owner' = t
    /\ lk_depth' = lk_depth + 1
    /\ StepDone(t)
    /\ UNCHANGED exceptLock

\* The with block is left.
LockRelease(t) ==
    /\ lk_todo[t] # <<>>
    /\ Head(lk_todo[t]).op = "release"
    /\ lk_depth' = Released(lk_depth)
    /\ lk_owner' = IF Released(lk_depth) = 0 THEN "none" ELSE lk_owner
    /\ StepDone(t)
    /\ UNCHANGED exceptLock

\* A read or a write of memory_cache, cache_access_times or
\* download_in_progress.
LockAccess(t) ==
    /\ lk_todo[t] # <<>>
    /\ Head(lk_todo[t]).op \in {"read", "write"}
    /\ StepDone(t)
    /\ UNCHANGED <<lk_owner, lk_depth>>
    /\ UNCHANGED exceptLock

\* ox.graph_from_point, or an operation on the graph files.
LockIo(t) ==
    /\ lk_todo[t] # <<>>
    /\ Head(lk_todo[t]).op = "io"
    /\ StepDone(t)
    /\ UNCHANGED <<lk_owner, lk_depth>>
    /\ UNCHANGED exceptLock

NextLock ==
    \/ \E t \in LockThreads : LockCall(t)
    \/ \E t \in LockThreads : LockAcquire(t)
    \/ \E t \in LockThreads : LockRelease(t)
    \/ \E t \in LockThreads : LockAccess(t)
    \/ \E t \in LockThreads : LockIo(t)

(***************************************************************************)
(* Travel times on the edges of the graphs get_graph returns               *)
(* (Services/IsochroneServices.py)                                         *)
(*                                                                         *)
(* A graph is the sequence of its edges in iteration order; an edge is     *)
(* TRUE when it has the attribute 'travel_time'.  Every edge has a         *)
(* 'length', as the edges OSMnx builds and saves do.  The calls are for    *)
(* one cache key, one after the other.                                     *)
(***************************************************************************)

MaxEdges == 3               \* edges of a graph

MaxGraphCalls == 3          \* calls of get_graph

\* network_type of get_graph: the travel modes of the isochrone endpoints,
\* and a network type of OSMnx that /preload passes on unchecked.
NetworkTypes == {"drive", "walk", "bike", "all"}

\* No graph; the graphs of the model have an edge.
NoFile == <<>>

\* ox.graph_from_point: no edge has a travel time yet.
FetchedGraphs == UNION { [1..n -> {FALSE}] : n \in 1..MaxEdges }

\* The graphs a file of the cache folder can hold.
FileGraphs == UNION { [1..n -> BOOLEAN] : n \in 1..MaxEdges }

\* add_edge_speeds and add_edge_travel_times, or the loop over the edges
AllEdgesTimed(graph) == [e \in DOMAIN graph |-> TRUE]

\* _ensure_travel_times: the first edge is the sample; the graph is
\* annotated when the sample has no travel_time and the network type is
\* drive, walk or bike.
EnsureTravelTimes(graph, network_type) ==
    IF graph # <<>> /\ ~graph[1]
    THEN IF network_type \in {"drive", "walk", "bike"}
         THEN AllEdgesTimed(graph)
         ELSE graph
    ELSE graph

AnnotOff ==
    /\ an_type = "none"
    /\ an_disk = NoFile
    /\ an_memory = NoFile
    /\ an_returned = NoFile
    /\ an_calls = 0

InitAnnot ==
    /\ an_type \in NetworkTypes
    /\ an_disk \in FileGraphs \cup {NoFile}
    /\ an_memory = NoFile
    /\ an_returned = NoFile
    /\ an_calls = 0

\* get_graph: "Check memory cache first"
GetFromMemory ==
    /\ an_calls < MaxGraphCalls
    /\ an_memory # NoFile
    /\ an_returned' = an_memory
    /\ an_calls' = an_calls + 1
    /\ UNCHANGED <<an_type, an_disk, an_memory>>
    /\ UNCHANGED exceptAnnot

\* get_graph: "Check disk cache"; _load_from_disk annotates the graph.
GetFromDisk ==
    /\ an_calls < MaxGraphCalls
    /\ an_memory = NoFile
    /\ an_disk # NoFile
    /\ an_memory' = EnsureTravelTimes(an_disk, an_type)
    /\ an_returned' = EnsureTravelTimes(an_disk, an_type)
    /\ an_calls' = an_calls + 1
    /\ UNCHANGED <<an_type, an_disk>>
    /\ UNCHANGED exceptAnnot

\* get_graph: "Download immediately for first request"; the graph is
\* annotated, saved and added to the memory cache.
GetByFetch ==
    /\ an_calls < MaxGraphCalls
    /\ an_memory = NoFile
    /\ an_disk = NoFile
    /\ \E graph \in FetchedGraphs :
          /\ an_disk' = EnsureTravelTimes(graph, an_type)
          /\ an_memory' = EnsureTravelTimes(graph, an_type)
          /\ an_returned' = EnsureTravelTimes(graph, an_type)
    /\ an_calls' = an_calls + 1
    /\ UNCHANGED an_type
    /\ UNCHANGED exceptAnnot

\* The key is evicted from the memory cache, or the cache is cleared.
DropFromMemory ==
    /\ an_memory # NoFile
    /\ an_memory' = NoFile
    /\ UNCHANGED <<an_type, an_disk, an_returned, an_calls>>
    /\ UNCHANGED exceptAnnot

NextAnnot ==
    \/ GetFromMemory
    \/ GetFromDisk
    \/ GetByFetch
    \/ DropFromMemory

(***************************************************************************)
(* Loading the graph file of a key: GraphCache._load_from_disk inside      *)
(* get_graph (Services/IsochroneServices.py); load_bbox_graph              *)
(* (Services/MatrixServices.py) has the same steps.                        *)
(*                                                                         *)
(* The steps run without the lock of the cache, so the steps of two        *)
(* threads that load the file of the same key interleave.                  *)
(***************************************************************************)

LoadThreads == {"r1", "r2", "r3"}

FileStates == {"none", "good", "corrupted"}

LoadOff ==
    /\ ld_file = "none"
    /\ ld_pc = <<>>
    /\ ld_cause = <<>>
    /\ ld_ret = <<>>

InitLoad ==
    /\ ld_file \in FileStates
    /\ ld_pc = [t \in LoadThreads |-> "idle"]
    /\ ld_cause = [t \in LoadThreads |-> "none"]
    /\ ld_ret = [t \in LoadThreads |-> "none"]

\* "if os.path.exists(cache_file)"; without the file _load_from_disk
\* returns None and get_graph goes on to fetch the graph.
LoadExists(t) ==
    /\ ld_pc[t] = "idle"
    /\ ld_pc' = [ld_pc EXCEPT ![t] =
                    IF ld_file = "none" THEN "fetch" ELSE "load"]
    /\ UNCHANGED <<ld_file, ld_cause, ld_ret>>
    /\ UNCHANGED exceptLoad

\* ox.load_graphml: the graph is returned, or the call raises because the
\* file is corrupted, or because the file is there no more.
LoadGraphml(t) ==
    /\ ld_pc[t] = "load"
    /\ IF ld_file = "good"
       THEN /\ ld_pc' = [ld_pc EXCEPT ![t] = "returned"]
            /\ ld_ret' = [ld_ret EXCEPT ![t] = "graph"]
            /\ UNCHANGED ld_cause
       ELSE /\ ld_pc' = [ld_pc EXCEPT ![t] = "except"]
            /\ ld_cause' = [ld_cause EXCEPT ![t] =
                               IF ld_file = "corrupted" THEN "corrupted"
                               ELSE "missing"]
            /\ UNCHANGED ld_ret
    /\ UNCHANGED ld_file
    /\ UNCHANGED exceptLoad

\* except Exception: os.remove(cache_file), then return None.  os.remove
\* raises FileNotFoundError when the file is there no more; nothing catches
\* it in _load_from_disk nor in get_graph.
LoadRemove(t) ==
    /\ ld_pc[t] = "except"
    /\ IF ld_file = "none"
       THEN /\ ld_pc' = [ld_pc EXCEPT ![t] = "returned"]
            /\ ld_ret' = [ld_ret EXCEPT ![t] = "raise"]
            /\ UNCHANGED ld_file
       ELSE /\ ld_file' = "none"
            /\ ld_pc' = [ld_pc EXCEPT ![t] = "fetch"]
            /\ UNCHANGED ld_ret
    /\ UNCHANGED ld_cause
    /\ UNCHANGED exceptLoad

\* get_graph after _load_from_disk returned None: the graph is fetched and
\* saved, and returned.
LoadFetch(t) ==
    /\ ld_pc[t] = "fetch"
    /\ ld_file' = "good"
    /\ ld_pc' = [ld_pc EXCEPT ![t] = "returned"]
    /\ ld_ret' = [ld_ret EXCEPT ![t] = "graph"]
    /\ UNCHANGED ld_cause
    /\ UNCHANGED exceptLoad

NextLoad ==
    \/ \E t \in LoadThreads : LoadExists(t)
    \/ \E t \in LoadThreads : LoadGraphml(t)
    \/ \E t \in LoadThreads : LoadRemove(t)
    \/ \E t \in LoadThreads : LoadFetch(t)

(***************************************************************************)
(* The coordinates of the route: solve_pdp_optimized                       *)
(* (Services/MatrixServices.py) on the items that calculate_matrix         *)
(* (Routes/Matrix/MatrixApi.py) builds from a request in PDP mode.         *)
(*                                                                         *)
(* A package_id is a JSON value: a string, a number, or None when the      *)
(* location of the request has none (loc.get('package_id')).               *)
(***************************************************************************)

MaxItems == 2               \* pickup and delivery locations per request

TextId(s) == [kind |-> "str", text |-> s, num |-> 0]

NumberId(n) == [kind |-> "number", text |-> "", num |-> n]

NoneId == [kind |-> "null", text |-> "", num |-> 0]

\* The package ids of the requests: two strings, the second spelling the
\* number that is the third, and None.
ItemIds == {TextId("a"), TextId("7"), NumberId(7), NoneId}

Digits == <<"0", "1", "2", "3", "4", "5", "6", "7", "8", "9">>

\* f'{pkg_id}': the text of a string, the decimal digit of a number below
\* ten, 'None' for None.
Format(id) ==
    IF id.kind = "str" THEN id.text
    ELSE IF id.kind = "number" THEN Digits[id.num + 1]
    ELSE "None"

\* item.get('package_id') == package_id, where package_id is a string cut
\* out of a node name: only a string equals a string.
EqualsText(id, package_id) == id.kind = "str" /\ id.text = package_id

\* node_info[0].lower()
LowerType(type) ==
    IF type = "Pickup" THEN "pickup"
    ELSE IF type = "Delivery" THEN "delivery"
    ELSE "start"

\* The item of a location; its coordinates tell its place in the request.
Item(type, id, place) ==
    [type |-> type, package_id |-> id, lat |-> 40 + place, lng |-> 20 + place]

\* processed_locations: the current location, then the locations of the
\* request.
Requests ==
    { <<Item("current", NoneId, 0)>>
          \o [i \in DOMAIN kinds |-> Item(kinds[i][1], kinds[i][2], i)] :
        kinds \in SeqsUpTo({"pickup", "delivery"} \X ItemIds, MaxItems) }

\* [... item['package_id'] for item in data if item['type'] == type]
RECURSIVE IdsOfType(_, _)
IdsOfType(items, type) ==
    IF items = <<>> THEN <<>>
    ELSE LET rest == IdsOfType(Tail(items), type)
         IN  IF Head(items).type = type
             THEN <<Head(items).package_id>> \o rest
             ELSE rest

\* The keys of pickup_nodes and of delivery_nodes, in the order of the
\* nodes: index 0 of the nodes is the start.
NodeKeys(items) ==
    <<NoneId>> \o DictKeys(IdsOfType(items, "pickup"))
               \o DictKeys(IdsOfType(items, "delivery"))

\* node_names = ['Start'] + [f'Pickup_{pkg_id}' ...] + [f'Delivery_{pkg_id}' ...]
FormattedNames(items) ==
    LET pk == DictKeys(IdsOfType(items, "pickup"))
        dl == DictKeys(IdsOfType(items, "delivery"))
    IN  <<StartName>>
            \o NameOfType("Pickup", [i \in DOMAIN pk |-> Format(pk[i])])
            \o NameOfType("Delivery", [i \in DOMAIN dl |-> Format(dl[i])])

\* The routes the main loop can end with, from the route `visited`: every
\* row of the matrix is tried for every iteration.
RECURSIVE PdpRoutes(_, _, _, _)
PdpRoutes(names, visited, unv, vp) ==
    IF unv = {} THEN {visited}
    ELSE UNION {
           LET found == GreedyChoices(names, unv, vp, row)
               next == IF found = {} THEN {ForcedNode(unv)} ELSE found
           IN  UNION { PdpRoutes(names, Append(visited, n), unv \ {n},
                                 MarkPickup(vp, NameOf(names, n))) :
                         n \in next } :
           row \in [unv -> MatrixDistances] }

\* The first item of `items` that passes the test of the lookup for the
\* node name, as a sequence: empty when no item passes.
FirstMatch(items, name) ==
    LET hits == { i \in DOMAIN items :
                    IF name = StartName
                    THEN items[i].type = "current"
                    ELSE /\ items[i].type = LowerType(name.type)
                         /\ EqualsText(items[i].package_id, PkgOfName(name)) }
    IN  IF hits = {} THEN <<>>
        ELSE << <<items[SetMin(hits)].lat, items[SetMin(hits)].lng>> >>

\* "Extract coordinates for each node in the route"
RECURSIVE RouteCoords(_, _)
RouteCoords(items, optimal_route) ==
    IF optimal_route = <<>> THEN <<>>
    ELSE FirstMatch(items, Head(optimal_route))
             \o RouteCoords(items, Tail(optimal_route))

CoordOff ==
    /\ co_data = <<>>
    /\ co_names = <<>>
    /\ co_route = <<>>
    /\ co_coords = <<>>
    /\ co_pc = "off"

InitCoord ==
    /\ co_data \in Requests
    /\ co_names = <<>>
    /\ co_route = <<>>
    /\ co_coords = <<>>
    /\ co_pc = "received"

\* Lines 468-500: the pickups, the deliveries and the names of the nodes.
CoordExtract ==
    /\ co_pc = "received"
    /\ co_names' = FormattedNames(co_data)
    /\ co_pc' = "loop"
    /\ UNCHANGED <<co_data, co_route, co_coords>>
    /\ UNCHANGED exceptCoord

\* Lines 508-632: the main loop.
CoordSolve ==
    /\ co_pc = "loop"
    /\ co_route' \in PdpRoutes(co_names, <<0>>, 1..(Len(co_names) - 1), {})
    /\ co_pc' = "solved"
    /\ UNCHANGED <<co_data, co_names, co_coords>>
    /\ UNCHANGED exceptCoord

\* Lines 634-696: optimal_route, optimal_route_coords and the result.
CoordReturn ==
    /\ co_pc = "solved"
    /\ co_coords' =
           RouteCoords(co_data,
                       [k \in DOMAIN co_route |-> NameOf(co_names, co_route[k])])
    /\ co_pc' = "returned"
    /\ UNCHANGED <<co_data, co_names, co_route>>
    /\ UNCHANGED exceptCoord

NextCoord ==
    \/ CoordExtract
    \/ CoordSolve
    \/ CoordReturn

(***************************************************************************)
(* The optimization step of the directions route: get_route_directions     *)
(* (Services/DirectionsServices.py) and calculate_optimal_route            *)
(* (Services/MatrixServices.py)                                            *)
(***************************************************************************)

MaxWaypoints == 3           \* waypoints per request

\* The positional arguments of the call at DirectionsServices.py line 281.
call_arguments == 2

\* The parameters of calculate_optimal_route (MatrixServices.py line 907).
parameters == 1

WaypointCoords == { <<41, 20>>, <<42, 21>>, <<43, 22>> }

\* The requests that pass the validation of the waypoints: two waypoints or
\* more.
WaypointLists ==
    UNION { [1..n -> WaypointCoords] : n \in 2..MaxWaypoints }

\* The orders of a sequence.
Orders(s) ==
    { [i \in DOMAIN s |-> s[p[i]]] :
        p \in { q \in [DOMAIN s -> DOMAIN s] :
                  \A i, j \in DOMAIN s : q[i] = q[j] => i = j } }

\* What calculate_optimal_route returns: the dict of a route, with the
\* coordinates in the order of the route, or a dict of an except handler,
\* whose 'optimal_route_coordinates' is the empty list.
OptimalResults(waypoints) ==
    { [kind |-> "route", optimal_route_coordinates |-> c] :
        c \in Orders(waypoints) }
        \cup { [kind |-> "error", optimal_route_coordinates |-> <<>>] }

OptOff ==
    /\ op_waypoints = <<>>
    /\ op_optimize = FALSE
    /\ op_fallback = FALSE
    /\ op_result = "none"
    /\ op_coords = <<>>
    /\ op_osrm = "none"
    /\ op_status = "none"
    /\ op_pc = "off"

InitOpt ==
    /\ op_waypoints \in WaypointLists
    /\ op_optimize \in BOOLEAN
    /\ op_fallback \in BOOLEAN
    /\ op_result = "none"
    /\ op_coords = op_waypoints
    /\ op_osrm = "none"
    /\ op_status = "none"
    /\ op_pc = "received"

\* Lines 268-286, "Optionally optimize route order".  A call with another
\* number of positional arguments than the function has parameters raises
\* TypeError, which the except clause of line 431 catches.
OptOptimize ==
    /\ op_pc = "received"
    /\ IF ~op_optimize
       THEN /\ op_result' = "not_called"
            /\ op_pc' = "routing"
            /\ UNCHANGED op_coords
       ELSE IF call_arguments # parameters
       THEN /\ op_result' = "TypeError"
            /\ op_pc' = "failed"
            /\ UNCHANGED op_coords
       ELSE \E optimal_result \in OptimalResults(op_waypoints) :
               /\ op_result' = optimal_result.kind
               /\ op_coords' = optimal_result.optimal_route_coordinates
               /\ op_pc' = "routing"
    /\ UNCHANGED <<op_waypoints, op_optimize, op_fallback, op_osrm, op_status>>
    /\ UNCHANGED exceptOpt

\* Lines 288-429: call_osrm_route answers with a route or with an error (it
\* has no route for fewer than two coordinates); on an error the OSMnx
\* fallback computes the route if it is enabled, and raises for an empty
\* route_coords (division by len(route_coords)) or a graph it cannot fetch;
\* without the fallback RuntimeError is raised.
OptRoute ==
    /\ op_pc = "routing"
    /\ \/ /\ Len(op_coords) >= 2
          /\ op_osrm' = "ok"
          /\ op_status' = "success"
       \/ /\ op_osrm' = "error"
          /\ \/ /\ op_fallback
                /\ op_coords # <<>>
                /\ op_status' = "success"
             \/ op_status' = "error"
    /\ op_pc' = "answered"
    /\ UNCHANGED <<op_waypoints, op_optimize, op_fallback, op_result,
                   op_coords>>
    /\ UNCHANGED exceptOpt

\* Lines 431-438: the except clause answers an exception of the steps
\* before the route computation with the error dict.
OptFail ==
    /\ op_pc = "failed"
    /\ op_status' = "error"
    /\ op_pc' = "answered"
    /\ UNCHANGED <<op_waypoints, op_optimize, op_fallback, op_result,
                   op_coords, op_osrm>>
    /\ UNCHANGED exceptOpt

NextOpt ==
    \/ OptOptimize
    \/ OptRoute
    \/ OptFail

(***************************************************************************)
(* The memo of the isochrone results: calculate_isochrone and              *)
(* calculate_isochrone_cached (Services/IsochroneServices.py) with the     *)
(* handlers get_isochrones and batch_isochrones                            *)
(* (Routes/Isochrone/IsochroneApi.py).                                     *)
(*                                                                         *)
(* functools.lru_cache hands every caller of one key the same dict object; *)
(* the dicts are therefore kept by object, and the memo and the handlers   *)
(* hold objects.  Travel times are given in half minutes, so that 11       *)
(* stands for 5.5 minutes; the center and the tolerance are the same in    *)
(* every request.                                                          *)
(***************************************************************************)

MaxMemoCalls == 2           \* requests per run

MemoThreads == {"h1", "h2"}

\* get_isochrones (POST /calculate) and calculate_for_location of
\* batch_isochrones (POST /batch)
MemoEndpoints == {"calculate", "batch"}

\* travel_times of the requests, in half minutes: 2 minutes, 5.5 minutes,
\* and both in descending order.
TravelTimeLists == { <<4>>, <<11>>, <<11, 4>> }

TravelModes == {"drive", "walk", "bike"}

MemoRequests ==
    { [endpoint |-> e, travel_times |-> tt, travel_mode |-> m] :
        e \in MemoEndpoints, tt \in TravelTimeLists, m \in TravelModes }

NoMemoRequest == [endpoint |-> "none", travel_times |-> <<>>,
                  travel_mode |-> "none"]

\* Values of round(total_time, 3) and of the index of a location.
HandlerValues == {1, 2}

\* Mutant of SpeedFactor: the default speed of the profile for driving.
SpeedFactorDefault(travel_mode) ==
    IF travel_mode = "drive" THEN 50
    ELSE IF travel_mode = "bike" THEN 15
    ELSE 5

\* speed_factor
SpeedFactor(travel_mode) ==
    IF travel_mode = "drive" THEN 60
    ELSE IF travel_mode = "bike" THEN 15
    ELSE 5

\* buffer_distance = max(2000, int(max_travel_time * speed_factor * 1000
\* / 60 * 1.5)), in metres, for max_travel_time given in half minutes:
\* minutes * speed_factor * 25 is half_minutes * speed_factor * 25 / 2, and
\* int() cuts the half metre off (for travel times that are multiples of
\* half a minute the floating-point product has the exact value).
BufferDistance(travel_times_tuple, travel_mode) ==
    LET max_travel_time == SetMax(Range(travel_times_tuple))
        padded == (max_travel_time * SpeedFactor(travel_mode) * 25) \div 2
    IN  IF padded > 2000 THEN padded ELSE 2000

\* The arguments calculate_isochrone passes on: the key of the memo.
MemoKey(request) ==
    <<TravelTimesTuple(request.travel_times), request.travel_mode>>

\* The dict calculate_isochrone_cached returns: the result of the
\* computation for a graph of the given radius, or {'error': ...}.
FreshResult(error, distance) ==
    [error |-> error, distance |-> distance,
     total_processing_time_seconds |-> 0, location_index |-> 0]

MemoOff ==
    /\ mm_cache = <<>>
    /\ mm_heap = <<>>
    /\ mm_pc = [t \in MemoThreads |-> "idle"]
    /\ mm_args = [t \in MemoThreads |-> NoMemoRequest]
    /\ mm_distance = [t \in MemoThreads |-> 0]
    /\ mm_obj = [t \in MemoThreads |-> 0]
    /\ mm_hit = [t \in MemoThreads |-> FALSE]
    /\ mm_calls = MaxMemoCalls

\* The memo of a service that was started: empty.
InitMemo ==
    /\ mm_cache = <<>>
    /\ mm_heap = <<>>
    /\ mm_pc = [t \in MemoThreads |-> "idle"]
    /\ mm_args = [t \in MemoThreads |-> NoMemoRequest]
    /\ mm_distance = [t \in MemoThreads |-> 0]
    /\ mm_obj = [t \in MemoThreads |-> 0]
    /\ mm_hit = [t \in MemoThreads |-> FALSE]
    /\ mm_calls = 0

\* A request takes the first handler thread that is free.
FirstFreeHandler(t) ==
    \A u \in MemoThreads : mm_pc[u] = "idle" => (t = "h1" \/ u # "h1")

\* The handler calls calculate_isochrone: the wrapper of lru_cache looks
\* the key up; on a miss the function body starts and computes
\* buffer_distance.
MemoCall(t, request) ==
    /\ mm_pc[t] = "idle"
    /\ FirstFreeHandler(t)
    /\ mm_calls < MaxMemoCalls
    /\ mm_calls' = mm_calls + 1
    /\ mm_args' = [mm_args EXCEPT ![t] = request]
    /\ IF MemoKey(request) \in DOMAIN mm_cache
       THEN /\ mm_obj' = [mm_obj EXCEPT ![t] = mm_cache[MemoKey(request)]]
            /\ mm_hit' = [mm_hit EXCEPT ![t] = TRUE]
            /\ mm_pc' = [mm_pc EXCEPT ![t] = "handle"]
            /\ UNCHANGED mm_distance
       ELSE /\ mm_distance' =
                   [mm_distance EXCEPT
                       ![t] = BufferDistance(MemoKey(request)[1],
                                             request.travel_mode)]
            /\ mm_hit' = [mm_hit EXCEPT ![t] = FALSE]
            /\ mm_obj' = [mm_obj EXCEPT ![t] = 0]
            /\ mm_pc' = [mm_pc EXCEPT ![t] = "compute"]
    /\ UNCHANGED <<mm_cache, mm_heap>>
    /\ UNCHANGED exceptMemo

\* The function body from get_graph on: it returns the dict of the result,
\* or the dict of its except clause when the graph cannot be obtained; the
\* wrapper stores the dict under the key unless another thread has stored
\* one meanwhile, and returns it.
MemoCompute(t, error) ==
    /\ mm_pc[t] = "compute"
    /\ mm_heap' = Append(mm_heap, FreshResult(error, mm_distance[t]))
    /\ mm_obj' = [mm_obj EXCEPT ![t] = Len(mm_heap) + 1]
    /\ mm_cache' =
           IF MemoKey(mm_args[t]) \in DOMAIN mm_cache THEN mm_cache
           ELSE Put(mm_cache, MemoKey(mm_args[t]), Len(mm_heap) + 1)
    /\ mm_pc' = [mm_pc EXCEPT ![t] = "handle"]
    /\ UNCHANGED <<mm_args, mm_distance, mm_hit, mm_calls>>
    /\ UNCHANGED exceptMemo

\* What the handler does with the dict before it answers: get_isochrones
\* answers an error dict with 500 and else sets
\* 'total_processing_time_seconds' (and 'cache_info'); calculate_for_location
\* sets 'location_index' (and 'location_name') on every dict.
Handled(result, endpoint, value) ==
    IF endpoint = "batch"
    THEN [result EXCEPT !.location_index = value]
    ELSE IF result.error THEN result
    ELSE [result EXCEPT !.total_processing_time_seconds = value]

\* The handler answers; its frame is dropped.
MemoHandle(t, value) ==
    /\ mm_pc[t] = "handle"
    /\ mm_heap' = [mm_heap EXCEPT
                      ![mm_obj[t]] = Handled(mm_heap[mm_obj[t]],
                                             mm_args[t].endpoint, value)]
    /\ mm_pc' = [mm_pc EXCEPT ![t] = "idle"]
    /\ mm_args' = [mm_args EXCEPT ![t] = NoMemoRequest]
    /\ mm_distance' = [mm_distance EXCEPT ![t] = 0]
    /\ mm_obj' = [mm_obj EXCEPT ![t] = 0]
    /\ mm_hit' = [mm_hit EXCEPT ![t] = FALSE]
    /\ UNCHANGED <<mm_cache, mm_calls>>
    /\ UNCHANGED exceptMemo

NextMemo ==
    \/ \E t \in MemoThreads, request \in MemoRequests : MemoCall(t, request)
    \/ \E t \in MemoThreads, error \in BOOLEAN : MemoCompute(t, error)
    \/ \E t \in MemoThreads, value \in HandlerValues : MemoHandle(t, value)

(***************************************************************************)
(* Specifications: one per component.  The variables of the components a   *)
(* specification does not run keep their initial values.                   *)
(***************************************************************************)

\* The cache with no request thread.
CacheOff == InitCache(0, {}, 0, {})

\* The points the concurrent requests are for: a bucket, its neighbour to
\* the north and the far point.
ConcurrentPoints == RequestPoints \ { <<-197, 0, 2000, "drive">> }

InitThreads ==
    /\ InitCache(MaxCalls, Threads, MaxFaults, ConcurrentPoints)
    /\ PdpOff /\ TrackerOff /\ TimeOff /\ MatrixOff /\ ModeOff /\ TspOff /\
       EndpointOff /\ LockOff /\ AnnotOff /\ LoadOff /\ CoordOff /\
       OptOff /\ MemoOff /\ IsoOff

\* Two request threads, the background downloader and cache/clear; fetches,
\* loads and saves can fail.
Spec == InitThreads /\ [][NextCache]_vars

InitSequential ==
    /\ InitCache(MaxSeqCalls, {"r1"}, 0, RequestPoints)
    /\ PdpOff /\ TrackerOff /\ TimeOff /\ MatrixOff /\ ModeOff /\ TspOff /\
       EndpointOff /\ LockOff /\ AnnotOff /\ LoadOff /\ CoordOff /\
       OptOff /\ MemoOff /\ IsoOff

\* One request thread calling get_graph again and again and the background
\* downloader; nothing fails and the cache is not cleared.
SpecSequential == InitSequential /\ [][NextCacheRun]_vars

\* The files of the cache folder of a service that was started again: the
\* graphs of a bucket and of its neighbour to the north.
WarmFiles == {GenerateCacheKey(p[1], p[2], p[3], p[4]) :
                 p \in { <<3, 0, 2000, "drive">>, <<200, 0, 2000, "drive">> }}

InitWarm ==
    /\ InitCacheOver(WarmFiles, MaxWarmCalls, Threads, 0, ConcurrentPoints)
    /\ PdpOff /\ TrackerOff /\ TimeOff /\ MatrixOff /\ ModeOff /\ TspOff /\
       EndpointOff /\ LockOff /\ AnnotOff /\ LoadOff /\ CoordOff /\
       OptOff /\ MemoOff /\ IsoOff

\* Two request threads and the background downloader of a service that was
\* started over a cache folder with files; nothing fails and the cache is
\* not cleared.
SpecWarm == InitWarm /\ [][NextCacheRun]_vars

InitPdpRun ==
    /\ InitPdp
    /\ CacheOff /\ TrackerOff /\ TimeOff /\ MatrixOff /\ ModeOff /\
       TspOff /\ EndpointOff /\ LockOff /\ AnnotOff /\ LoadOff /\
       CoordOff /\ OptOff /\ MemoOff /\ IsoOff

\* The main loop of solve_pdp_optimized, for every request and matrix.
SpecPDP == InitPdpRun /\ [][NextPdp]_vars

InitTrackerRun ==
    /\ InitTracker
    /\ CacheOff /\ PdpOff /\ TimeOff /\ MatrixOff /\ ModeOff /\ TspOff /\
       EndpointOff /\ LockOff /\ AnnotOff /\ LoadOff /\ CoordOff /\
       OptOff /\ MemoOff /\ IsoOff

\* Requests through a handler wrapped by track_usage, one after another.
SpecTracker == InitTrackerRun /\ [][NextTracker]_vars

InitTimeRun ==
    /\ InitTime
    /\ CacheOff /\ PdpOff /\ TrackerOff /\ MatrixOff /\ ModeOff /\
       TspOff /\ EndpointOff /\ LockOff /\ AnnotOff /\ LoadOff /\
       CoordOff /\ OptOff /\ MemoOff /\ IsoOff

\* calculate_realistic_travel_time applied to every path of the model.
SpecTime == InitTimeRun /\ [][NextTime]_vars

InitMatrixRun ==
    /\ InitMatrix
    /\ CacheOff /\ PdpOff /\ TrackerOff /\ TimeOff /\ ModeOff /\ TspOff /\
       EndpointOff /\ LockOff /\ AnnotOff /\ LoadOff /\ CoordOff /\
       OptOff /\ MemoOff /\ IsoOff

\* precompute_distance_matrix on every graph and node list of the model.
SpecMatrix == InitMatrixRun /\ [][NextMatrix]_vars

InitModeRun ==
    /\ InitMode
    /\ CacheOff /\ PdpOff /\ TrackerOff /\ TimeOff /\ MatrixOff /\
       TspOff /\ EndpointOff /\ LockOff /\ AnnotOff /\ LoadOff /\
       CoordOff /\ OptOff /\ MemoOff /\ IsoOff

\* A directions request with every transport_mode of the model.
SpecMode == InitModeRun /\ [][NextMode]_vars

InitTspRun ==
    /\ InitTsp
    /\ CacheOff /\ PdpOff /\ TrackerOff /\ TimeOff /\ MatrixOff /\
       ModeOff /\ EndpointOff /\ LockOff /\ AnnotOff /\ LoadOff /\
       CoordOff /\ OptOff /\ MemoOff /\ IsoOff

\* solve_tsp_optimized on every request and matrix of the model.
SpecTsp == InitTspRun /\ [][NextTsp]_vars

InitEndpointRun ==
    /\ InitEndpoint
    /\ CacheOff /\ PdpOff /\ TrackerOff /\ TimeOff /\ MatrixOff /\
       ModeOff /\ TspOff /\ LockOff /\ AnnotOff /\ LoadOff /\ CoordOff /\
       OptOff /\ MemoOff /\ IsoOff

\* One request to each endpoint that takes coordinates.
SpecEndpoint == InitEndpointRun /\ [][NextEndpoint]_vars

InitLockRun ==
    /\ InitLock
    /\ CacheOff /\ PdpOff /\ TrackerOff /\ TimeOff /\ MatrixOff /\
       ModeOff /\ TspOff /\ EndpointOff /\ AnnotOff /\ LoadOff /\
       CoordOff /\ OptOff /\ MemoOff /\ IsoOff

\* Three threads, each in calls of the cache that take its lock.
SpecLock == InitLockRun /\ [][NextLock]_vars

InitAnnotRun ==
    /\ InitAnnot
    /\ CacheOff /\ PdpOff /\ TrackerOff /\ TimeOff /\ MatrixOff /\
       ModeOff /\ TspOff /\ EndpointOff /\ LockOff /\ LoadOff /\
       CoordOff /\ OptOff /\ MemoOff /\ IsoOff

\* Calls of get_graph for one key, for every file the cache folder can hold.
SpecAnnot == InitAnnotRun /\ [][NextAnnot]_vars

InitLoadRun ==
    /\ InitLoad
    /\ CacheOff /\ PdpOff /\ TrackerOff /\ TimeOff /\ MatrixOff /\
       ModeOff /\ TspOff /\ EndpointOff /\ LockOff /\ AnnotOff /\
       CoordOff /\ OptOff /\ MemoOff /\ IsoOff

\* Threads that call get_graph for one key whose file is missing, good or corrupted.
SpecLoad == InitLoadRun /\ [][NextLoad]_vars

InitCoordRun ==
    /\ InitCoord
    /\ CacheOff /\ PdpOff /\ TrackerOff /\ TimeOff /\ MatrixOff /\
       ModeOff /\ TspOff /\ EndpointOff /\ LockOff /\ AnnotOff /\
       LoadOff /\ OptOff /\ MemoOff /\ IsoOff

\* solve_pdp_optimized on every request of the model, up to its result.
SpecCoord == InitCoordRun /\ [][NextCoord]_vars

InitOptRun ==
    /\ InitOpt
    /\ CacheOff /\ PdpOff /\ TrackerOff /\ TimeOff /\ MatrixOff /\
       ModeOff /\ TspOff /\ EndpointOff /\ LockOff /\ AnnotOff /\
       LoadOff /\ CoordOff /\ MemoOff /\ IsoOff

\* get_route_directions on every request of the model.
SpecOpt == InitOptRun /\ [][NextOpt]_vars

InitMemoRun ==
    /\ InitMemo
    /\ CacheOff /\ PdpOff /\ TrackerOff /\ TimeOff /\ MatrixOff /\
       ModeOff /\ TspOff /\ EndpointOff /\ LockOff /\ AnnotOff /\
       LoadOff /\ CoordOff /\ OptOff /\ IsoOff

\* Requests to /calculate and /batch of the isochrone API over the memo of the results.
SpecMemo == InitMemoRun /\ [][NextMemo]_vars

InitIsoRun ==
    /\ InitIso
    /\ CacheOff /\ PdpOff /\ TrackerOff /\ TimeOff /\ MatrixOff /\
       ModeOff /\ TspOff /\ EndpointOff /\ LockOff /\ AnnotOff /\
       LoadOff /\ CoordOff /\ OptOff /\ MemoOff

\* calculate_isochrone on every graph and request of the model.
SpecIso == InitIsoRun /\ [][NextIso]_vars

\* The main loop of solve_pdp_optimized as the thread of the request runs
\* it: an iteration that can be made is made.
SpecPdpFair == InitPdpRun /\ [][NextPdp]_vars /\ WF_vars(NextPdp)
(***************************************************************************)
(* Claims about the GraphCache                                             *)
(***************************************************************************)

\* The keys whose upstream fetch is running, per agent.
FetchingThreads(key) == {t \in Threads : pc[t] = "downloading" /\ KeyOf(t) = key}

WorkerFetching(key) == wpc = "bg_downloading" /\ wtask.cache_key = key

FetchesRunning(key) ==
    Cardinality(FetchingThreads(key)) + (IF WorkerFetching(key) THEN 1 ELSE 0)

AllKeys ==
    {KeyOf(t) : t \in {u \in Threads : pc[u] = "downloading"}}
        \cup (IF wpc = "bg_downloading" THEN {wtask.cache_key} ELSE {})

\* C1: at any instant at most one upstream fetch of a key is running,
\* counting the synchronous fetches of get_graph and the fetches of the
\* background downloader.
C1_AtMostOneFetchPerKey == \A key \in AllKeys : FetchesRunning(key) <= 1

\* C2: the memory cache never holds more than max_memory_graphs graphs.
C2_MemoryCacheBounded == Cardinality(DOMAIN memory_cache) <= max_memory_graphs

\* C2 witness: all calls and prefetches of the run are over, the cache is
\* full and a graph that was fetched did not fit into it.
C2_Witness ==
    /\ Cardinality(DOMAIN memory_cache) = max_memory_graphs
    /\ \A t \in Threads : pc[t] = "idle"
    /\ wpc = "wait"
    /\ calls = MaxCalls
    /\ prefetched = MaxPrefetch
    /\ \E k \in disk : k \notin DOMAIN memory_cache

\* C3: no get_graph call returns an absent graph: it returns a graph or
\* raises.
C3_NeverReturnsNone == \A t \in Threads : ret[t].status # "none"

\* The last n entries of a sequence, as a set.
LastKeys(h, n) == {h[i] : i \in {j \in DOMAIN h : j > Len(h) - n}}

\* get_graph was called one call after another for more than
\* max_memory_graphs distinct keys, every call has returned its graph, no
\* fetch, load or save failed and the cache was not cleared.
SequentialRunDone ==
    /\ budget.threads = {"r1"}
    /\ pc["r1"] = "idle"
    /\ faults = 0
    /\ Len(history) > max_memory_graphs
    /\ Cardinality(Range(history)) = Len(history)

KeysAround(key, d) ==
    { <<key[1] + a, key[2] + b, key[3], key[4]>> :
        a \in {0 - d, 0, d}, b \in {0 - d, 0, d} } \ {key}

\* A call of get_graph that fetched its graph ends: the step that queues
\* the nearby downloads and returns the graph.
FetchedCallEnds(t) == pc[t] = "queue_nearby" /\ pc'[t] = "idle"

\* Every key of `keys` that is not in memory, has no file and is not in
\* progress before the step is the key of a queued task after it.
QueuedUnlessKnown(keys) ==
    \A k \in keys :
        (/\ k \notin DOMAIN memory_cache
         /\ k \notin disk
         /\ k \notin download_in_progress)
            => \E i \in DOMAIN download_queue' :
                   download_queue'[i].cache_key = k

\* C19 as stated: when a call of get_graph that fetched its graph ends,
\* each of the eight keys one bucket (0.001 degree) away that is neither
\* cached nor in progress is on the download queue.
C19_Original ==
    [][\A t \in Threads :
          FetchedCallEnds(t) => QueuedUnlessKnown(KeysAround(KeyOf(t), 10))]_vars

\* C19 amended: when a call of get_graph that fetched its graph ends, each
\* of the eight keys 0.02 degree (twenty buckets) away in latitude, in
\* longitude or in both, with the same radius and network type, that is
\* neither cached nor in progress is on the download queue.
C19_NearbyAreasQueued ==
    [][\A t \in Threads :
          FetchedCallEnds(t) => QueuedUnlessKnown(KeysAround(KeyOf(t), 200))]_vars

\* C19 witness: two calls have fetched the graphs of two keys 0.02 degree
\* apart; the first queued its eight neighbours, the second the seven of
\* its neighbours that were not cached.
C19_Witness ==
    /\ \A t \in Threads : pc[t] = "idle" /\ ret[t].status = "graph"
    /\ {<<0, 0, 2, "drive">>, <<200, 0, 2, "drive">>} \subseteq disk
    /\ Len(download_queue) = 15
    /\ \A i \in DOMAIN download_queue :
          download_queue[i].cache_key \notin disk

\* The background downloader takes a task from the queue and starts the
\* upstream fetch of its key.
WorkerStartsFetch == wpc = "wait" /\ wpc' = "bg_downloading"

\* C24: the background downloader never starts an upstream fetch for a key
\* whose graph is in the memory cache or on disk at the moment the task is
\* taken from the queue.
C24_NoPrefetchOfCachedKey ==
    [][WorkerStartsFetch =>
          /\ wtask'.cache_key \notin DOMAIN memory_cache
          /\ wtask'.cache_key \notin disk]_vars

\* C29: in every reachable state the memory map and the access-timestamp
\* map have the same keys, under any interleaving of get_graph, the
\* insertion by the background downloader, eviction and cache/clear.
C29_SameKeys == DOMAIN memory_cache = DOMAIN cache_access_times

\* C29 witness: the background downloader inserted the key 0.04_0.0, a later
\* call evicted the key that was requested first, and both maps hold the
\* two keys that are left.
C29_Witness ==
    /\ \A t \in Threads : pc[t] = "idle"
    /\ wpc = "wait"
    /\ prefetched = MaxPrefetch
    /\ <<400, 0, 2, "drive">> \in DOMAIN memory_cache
    /\ Cardinality(DOMAIN memory_cache) = max_memory_graphs
    /\ DOMAIN cache_access_times = DOMAIN memory_cache
    /\ <<200, 0, 2, "drive">> \in disk \ DOMAIN memory_cache

\* C30: when the background downloader is not working on a task, that is
\* after every prefetch that ended, by success or by failure, and whatever
\* is left in the queue, the in-progress set is empty.
C30_InProgressCleared == wpc = "wait" => download_in_progress = {}

\* C30 witness: one call fetched its graph and queued the neighbours; the
\* downloader took a task, its fetch failed (the key has no file and is not
\* in memory), and the in-progress set is empty again.
C30_Witness ==
    /\ \A t \in Threads : pc[t] = "idle"
    /\ calls = 1
    /\ prefetched = 1
    /\ faults = 1
    /\ wpc = "wait"
    /\ Cardinality(disk) = 1
    /\ DOMAIN memory_cache = disk
    /\ download_queue # <<>>
    /\ download_in_progress = {}

\* A step of _manage_memory_cache that takes a key out of the memory cache
\* (cache/clear leaves no graph in it).
Evicts ==
    /\ memory_cache' # <<>>
    /\ DOMAIN memory_cache \ DOMAIN memory_cache' # {}

\* C26: a graph is evicted from the memory cache only by the insertion of a
\* key that is not yet in memory, into a cache that holds max_memory_graphs
\* graphs; the second of two promotions of one key evicts nothing.
C26_EvictOnlyForNewKey ==
    [][Evicts =>
          /\ DOMAIN memory_cache' \ DOMAIN memory_cache # {}
          /\ Cardinality(DOMAIN memory_cache) >= max_memory_graphs]_vars

(***************************************************************************)
(* Claims about the PDP solver                                             *)
(***************************************************************************)

\* Position of a name in the returned route (0 when it is not there).
RouteIndex(name) ==
    IF \E k \in DOMAIN OptimalRoute : OptimalRoute[k] = name
    THEN CHOOSE k \in DOMAIN OptimalRoute : OptimalRoute[k] = name
    ELSE 0

PickupName(pkg) == [type |-> "Pickup", pkg |-> pkg]

DeliveryName(pkg) == [type |-> "Delivery", pkg |-> pkg]

\* The package ids that have a pickup and a delivery location.
PairedPackages ==
    {pkg \in PackageIds : /\ PickupName(pkg) \in Range(node_names)
                          /\ DeliveryName(pkg) \in Range(node_names)}

\* C4: in every returned route the pickup of a package that has a pickup
\* and a delivery comes before its delivery, also when the fallback step
\* was taken.
C4_PickupBeforeDelivery ==
    pdp_pc = "returned" =>
        \A pkg \in PairedPackages :
            /\ RouteIndex(PickupName(pkg)) > 0
            /\ RouteIndex(PickupName(pkg)) < RouteIndex(DeliveryName(pkg))

\* C4 witness: a returned route in which the fallback step selected the
\* pickup and the delivery of one package.
C4_Witness ==
    /\ pdp_pc = "returned"
    /\ \E pkg \in PairedPackages :
          \E i \in forced, j \in forced :
              /\ NameOf(node_names, i) = PickupName(pkg)
              /\ NameOf(node_names, j) = DeliveryName(pkg)

\* The fallback step selected the node at position k of the route, the node
\* is a delivery, and the pickup of its package is at no earlier position.
ForcedBeforePickup(k) ==
    /\ route[k] \in forced
    /\ NameOf(node_names, route[k]).type = "Delivery"
    /\ \A h \in 1..(k - 1) :
          NameOf(node_names, route[h])
              # PickupName(NameOf(node_names, route[k]).pkg)

\* C15: the fallback step never places a delivery in the route while the
\* pickup of its package has not been selected; the solver reports the
\* inconsistency and returns no such route.
C15_FallbackKeepsPrecedence ==
    \A k \in DOMAIN route : ~ForcedBeforePickup(k)

\* The route starts with the start node and holds every node of the request
\* (the start, the pickups and the deliveries) exactly once.
RouteComplete ==
    /\ route[1] = 0
    /\ \A n \in 0..(Len(node_names) - 1) :
          Cardinality({k \in DOMAIN route : route[k] = n}) = 1

\* C27: the main loop of the PDP solver terminates for every request and
\* every distance matrix, infinite entries included, and the route it
\* returns starts with the start node and contains every pickup and
\* delivery node exactly once.
C27_TerminatesWithFullRoute ==
    /\ <>(pdp_pc = "returned")
    /\ [](pdp_pc = "returned" => RouteComplete)

\* C27 witness: a returned route of the largest request of the model in
\* which a pickup the scan never skips was selected by the fallback step,
\* that is from a row of the matrix with infinite entries only.
C27_Witness ==
    /\ pdp_pc = "returned"
    /\ Len(route) = 1 + 2 * MaxStops
    /\ RouteComplete
    /\ \E i \in forced : NameOf(node_names, i) = PickupName("p1")

(***************************************************************************)
(* Claims about the usage tracker                                          *)
(***************************************************************************)

\* The status code the client receives for a handler response (a value of
\* another type is sent as 200).
HttpStatus(response) == response.status

\* C5: every analytics record belongs to a request that carried an
\* identity and whose response status code is below 400; a request with a
\* status code of 400 or more, or without identity, gets none.
C5_AnalyticsOnlyForSuccess ==
    \A a \in analytics_records :
        /\ a.user_id # "none"
        /\ HttpStatus(a.response) < 400
        /\ \E u \in usage_records : u.id = a.usage_id /\ u.status_code < 400

\* C5 witness: an identified request with a failed response was tracked
\* and has no analytics record, while another request has one.
C5_Witness ==
    /\ tr_pc = "idle"
    /\ analytics_records # {}
    /\ \E u \in usage_records :
          /\ u.status_code >= 400
          /\ \A a \in analytics_records : a.usage_id # u.id

\* The last request is over and its handler had returned a response.
TrackedRequestOver == tr_pc = "idle" /\ tr_response # NoResponse

\* C6: when tracking steps of a request fail, the handler's response is
\* still returned unchanged; when only the extraction failed, the usage
\* record of the request is persisted.
C6_TrackingNeverFailsRequest ==
    TrackedRequestOver =>
        /\ tr_out = [how |-> "returned", response |-> tr_response]
        /\ tr_failed = {"extract"} =>
               \E u \in usage_records :
                   u.id = tr_usage_id /\ u.user_id = tr_user

\* C6 witness: two requests are over; in the last one only the extraction
\* failed, the response was returned, and the usage record and the base
\* analytics record of the request are persisted.
C6_Witness ==
    /\ TrackedRequestOver
    /\ tr_count = MaxRequests
    /\ tr_failed = {"extract"}
    /\ tr_out = [how |-> "returned", response |-> tr_response]
    /\ \E u \in usage_records : u.id = tr_usage_id
    /\ \E a \in analytics_records :
          a.usage_id = tr_usage_id /\ ~a.complete

(***************************************************************************)
(* Claims about the travel time model                                      *)
(***************************************************************************)

\* T: the sum of the kinematic times length / speed of the edges, in
\* milliseconds.
RECURSIVE KinematicTime(_)
KinematicTime(edges) ==
    IF edges = <<>> THEN 0
    ELSE KinematicTime(Tail(edges))
             + (Head(edges).length * 3600) \div SpeedKph(Head(edges))

\* Every edge of the path has edge data and a positive speed.
RegularPath == \A k \in DOMAIN tt_edges :
                   tt_edges[k].present /\ SpeedKph(tt_edges[k]) > 0

\* k: the number of interior nodes of the path
InteriorNodes == tt_path_len - 2

\* C8 as stated: the travel time of a path is (T + 15 k) * 1.4 + 20 seconds.
C8_Original ==
    (tt_pc = "returned" /\ tt_path_len >= 2 /\ RegularPath) =>
        tt_result * 10 =
            14 * (KinematicTime(tt_edges) + 15000 * InteriorNodes) + 200000

\* C8 amended: the travel time of a path of two or more nodes is
\* T * 1.4 + 15 k + 20 seconds: the congestion factor multiplies the
\* kinematic time only, the intersection penalty and the overhead are added
\* after it.
C8_CongestionOnKinematicTime ==
    (tt_pc = "returned" /\ tt_path_len >= 2 /\ RegularPath) =>
        tt_result * 10 =
            14 * KinematicTime(tt_edges) + 150000 * InteriorNodes + 200000

\* C8 witness: a path with interior nodes, for which the two formulas
\* differ.
C8_Witness ==
    /\ tt_pc = "returned"
    /\ RegularPath
    /\ InteriorNodes >= 2
    /\ tt_result * 10 =
           14 * KinematicTime(tt_edges) + 150000 * InteriorNodes + 200000
    /\ tt_result * 10 #
           14 * (KinematicTime(tt_edges) + 15000 * InteriorNodes) + 200000

(***************************************************************************)
(* Claims about the matrix builder                                         *)
(***************************************************************************)

\* Both nodes of the pair are nodes of the graph, with coordinates, and the
\* graph has no path from the first to the second.
UnreachablePair(i, j) ==
    /\ i # j
    /\ mx_nodes[i] \in GraphNodes
    /\ mx_nodes[j] \in GraphNodes
    /\ mx_lat[mx_nodes[i]] # <<>>
    /\ mx_lat[mx_nodes[j]] # <<>>
    /\ PathsBetween(mx_graph, mx_nodes[i], mx_nodes[j]) = {}

\* C7: after precompute_distance_matrix returns, every unreachable pair
\* whose nodes have coordinates holds the great-circle distance and the
\* time of that distance at 25 km/h; none is left infinite.
C7_UnreachablePairsRepaired ==
    mx_pc = "returned" =>
        \A i \in Indices, j \in Indices :
            UnreachablePair(i, j) =>
                LET d == StraightDistance(mx_lat[mx_nodes[i]][1],
                                          mx_lat[mx_nodes[j]][1])
                IN  /\ distance_matrix[<<i, j>>] = d
                    /\ time_matrix[<<i, j>>] = (d * 3600) \div 25

\* C13: the matrices precompute_distance_matrix returns have distance 0 and
\* time 0 at every index pair <<i, i>>, whether the rows were filled by the
\* batch loop, by the paths of single pairs or by straight-line distances.
C13_DiagonalZero ==
    mx_pc = "returned" =>
        \A i \in Indices :
            distance_matrix[<<i, i>>] = 0 /\ time_matrix[<<i, i>>] = 0

\* C13 witness: matrices returned for a node list with a node that is not
\* in the graph, so that the fallbacks filled them; the diagonal entry of
\* that node is zero and an entry off the diagonal was left infinite.
C13_Witness ==
    /\ mx_pc = "returned"
    /\ \E i \in Indices :
          /\ mx_nodes[i] \notin GraphNodes
          /\ distance_matrix[<<i, i>>] = 0
          /\ time_matrix[<<i, i>>] = 0
          /\ \E j \in Indices : distance_matrix[<<i, j>>] = Inf

(***************************************************************************)
(* Claims about the transport-mode normalisation                           *)
(***************************************************************************)

\* The input names a canonical mode or a listed alias, in any case and
\* with or without blanks around it; or no mode is given (null or the
\* empty string, for which the default applies).
KnownMode(mode) ==
    \/ mode.kind = "null"
    \/ /\ mode.kind = "str"
       /\ Strip(Lower(mode.chars)) \in OsrmServers \cup AliasNames \cup {<<>>}

\* C9: the normalisation is idempotent (validating an accepted result again
\* returns it), and every input that is neither a canonical mode nor a
\* listed alias is answered with 400.
C9_IdempotentAndUnknownIs400 ==
    /\ md_pc \in {"validated", "routing"} =>
           ValidateTransportMode(md_mode) = [outcome |-> "ok", mode |-> md_mode]
    /\ (md_pc # "received" /\ ~KnownMode(md_input)) => md_status = "400"

(***************************************************************************)
(* Claims about the isochrones                                             *)
(***************************************************************************)

\* C11: in every isochrone result the records are in the order of their
\* cutoffs (the records of a travel time that the request names twice are
\* neighbours), and of two records with cutoffs t1 < t2 the one of t1 has
\* no more reachable nodes than the one of t2.
C11_MonotoneAndOrdered ==
    iso_pc = "returned" =>
        \A a \in DOMAIN isochrones, b \in DOMAIN isochrones :
            /\ a < b => isochrones[a].travel_time_minutes
                            <= isochrones[b].travel_time_minutes
            /\ isochrones[a].travel_time_minutes
                   < isochrones[b].travel_time_minutes
                 => isochrones[a].reachable_nodes
                        <= isochrones[b].reachable_nodes

\* C11 witness: a result with the records of two cutoffs, the larger cutoff
\* reaching more nodes.
C11_Witness ==
    /\ iso_pc = "returned"
    /\ Len(isochrones) = 2
    /\ isochrones[1].travel_time_minutes < isochrones[2].travel_time_minutes
    /\ isochrones[1].reachable_nodes < isochrones[2].reachable_nodes

(***************************************************************************)
(* Claims about the route of plain locations                               *)
(***************************************************************************)

\* The route is the nearest-neighbour route of the distance matrix: from
\* index 0, each next index the unvisited one of least distance from the
\* index before it, the smaller index on a tie.
IsNearestNeighbourRoute(visited, dist, n) ==
    /\ Len(visited) = n
    /\ visited[1] = 0
    /\ \A i \in TspIndices(n) : \E k \in DOMAIN visited : visited[k] = i
    /\ \A k \in 2..n :
          LET rest == TspIndices(n) \ { visited[h] : h \in 1..(k - 1) }
          IN  \A j \in rest :
                 \/ dist[<<visited[k - 1], visited[k]>>]
                        < dist[<<visited[k - 1], j>>]
                 \/ /\ dist[<<visited[k - 1], visited[k]>>]
                          = dist[<<visited[k - 1], j>>]
                    /\ visited[k] <= j

\* C12: the solver of plain locations returns a route, and the route begins
\* at index 0, visits every location once and goes at each step to the
\* unvisited location of least distance, the smaller index on a tie.
C12_NearestNeighbourRoute ==
    tsp_pc = "returned" =>
        /\ ~tsp_result.error
        /\ IsNearestNeighbourRoute(
               tsp_result.optimal_route, tsp_returned[1],
               Cardinality({ p[1] : p \in DOMAIN tsp_returned[1] }))

(***************************************************************************)
(* Claims about the lock of the graph cache                                *)
(***************************************************************************)

\* C16: a thread that has just read or written memory_cache,
\* cache_access_times or download_in_progress holds the lock of the cache.
C16_AccessUnderLock ==
    \A t \in LockThreads :
        lk_done[t].op \in {"read", "write"} => lk_owner = t

\* C17: a thread that has just fetched a graph from the network, or tested,
\* loaded, saved or removed a graph file, does not hold the lock of the
\* cache.
C17_NoIoUnderLock ==
    \A t \in LockThreads : lk_done[t].op = "io" => lk_owner # t

\* C17 witness: a request thread has fetched a graph and the background
\* thread has loaded no file but fetched too, each without the lock, while
\* the third thread is inside a with block.
C17_Witness ==
    /\ lk_done["r1"] = Io("fetch", 205)
    /\ lk_done["w"] = Io("fetch", 148)
    /\ lk_owner = "h"

(***************************************************************************)
(* Claims about the travel times of the graphs                             *)
(***************************************************************************)

\* C18: every graph get_graph returns, from memory, from disk or from a
\* fetch, has a travel_time on every edge.
C18_ReturnedGraphTimed ==
    an_returned # NoFile => \A e \in DOMAIN an_returned : an_returned[e]

(***************************************************************************)
(* Claims about loading a graph file                                       *)
(***************************************************************************)

\* C20: a thread whose load of the file raised because the file is
\* corrupted gets None from _load_from_disk and goes on to fetch the graph,
\* get_graph does not raise, and once the thread is past the handler the
\* corrupted file is gone.
C20_CorruptedFileRemoved ==
    \A t \in LoadThreads :
        (ld_cause[t] = "corrupted" /\ ld_pc[t] \in {"fetch", "returned"}) =>
            /\ ld_ret[t] # "raise"
            /\ ld_file # "corrupted"

(***************************************************************************)
(* Claims about the coordinates of the route                               *)
(***************************************************************************)

\* The coordinates of the locations of the request that node idx stands
\* for: the current location for the start, else the locations with the
\* type and the package_id of the node.
InputCoordinates(idx) ==
    { <<co_data[i].lat, co_data[i].lng>> :
        i \in { j \in DOMAIN co_data :
                  IF idx = 0 THEN co_data[j].type = "current"
                  ELSE /\ co_data[j].type
                              = LowerType(NameOf(co_names, idx).type)
                       /\ co_data[j].package_id = NodeKeys(co_data)[idx + 1] } }

\* C22: the result of the solver has one coordinate pair per entry of
\* optimal_route, in the order of the route, and the k-th pair is the input
\* coordinate of the k-th node of the route; also for a package_id that is
\* absent or a number.
C22_CoordinatePerRouteNode ==
    co_pc = "returned" =>
        /\ Len(co_coords) = Len(co_route)
        /\ \A k \in DOMAIN co_route :
              k \in DOMAIN co_coords
                  => co_coords[k] \in InputCoordinates(co_route[k])

(***************************************************************************)
(* Claims about the optimization step of the directions route              *)
(***************************************************************************)

\* The optimization step was asked for and it failed or yielded no
\* coordinates.
OptimizationFailed ==
    /\ op_optimize
    /\ \/ op_result \in {"TypeError", "error"}
       \/ op_result = "route" /\ op_coords = <<>>

\* C28: when optimize_route is set and the optimization step fails or
\* yields no coordinates, the route is computed for the waypoints in their
\* original order: the request is answered by the route computation, not by
\* the failure of the optimization step.
C28_OptimizationFailureTolerated ==
    (OptimizationFailed /\ op_pc = "answered") =>
        /\ op_osrm # "none"
        /\ op_coords = op_waypoints

(***************************************************************************)
(* Claims about the memo of the isochrone results                          *)
(***************************************************************************)

\* C21: a result that the memo holds for a key is the dict that was stored:
\* no handler has changed it since calculate_isochrone_cached returned it.
C21_StoredResultUnchanged ==
    \A key \in DOMAIN mm_cache :
        mm_heap[mm_cache[key]] =
            FreshResult(mm_heap[mm_cache[key]].error,
                        mm_heap[mm_cache[key]].distance)

\* The radius of the claim, doubled (so that half metres are whole numbers),
\* for the largest travel time in half minutes and the speed in km/h:
\* max(2000, t_k * speed * 1000/60 * 1.5).
DoubledRadius(half_minutes, speed) ==
    IF half_minutes * speed * 25 > 4000
    THEN half_minutes * speed * 25 ELSE 4000

\* The thread is in the function body, past the computation of
\* buffer_distance, with which it calls get_graph.
Fetching(t) == mm_pc[t] = "compute"

LargestTime(t) == SetMax(Range(mm_args[t].travel_times))

\* C23 as stated: the radius of the fetch is max(2000, t_k * speed *
\* 1000/60 * 1.5) with the default speed of the profile: 50 for driving,
\* 5 for walking, 15 for cycling.
C23_Original ==
    \A t \in MemoThreads :
        Fetching(t) =>
            2 * mm_distance[t] =
                DoubledRadius(LargestTime(t),
                              CASE mm_args[t].travel_mode = "drive" -> 50
                                []  mm_args[t].travel_mode = "bike" -> 15
                                []  OTHER -> 5)

\* C23 amended: the radius of the fetch is max(2000, t_k * speed * 1000/60
\* * 1.5) cut to whole metres, with speed 60 for driving, 5 for walking and
\* 15 for cycling.
C23_FetchRadius ==
    \A t \in MemoThreads :
        Fetching(t) =>
            mm_distance[t] =
                DoubledRadius(LargestTime(t),
                              CASE mm_args[t].travel_mode = "drive" -> 60
                                []  mm_args[t].travel_mode = "bike" -> 15
                                []  OTHER -> 5) \div 2

\* C23 witness: a cycling request for 5.5 minutes is fetching with the
\* radius 2062 m (2062.5 cut), while a driving request for 2 and 5.5
\* minutes is fetching with 8250 m.
C23_Witness ==
    \E t, u \in MemoThreads :
        /\ Fetching(t)
        /\ mm_args[t].travel_mode = "bike"
        /\ mm_args[t].travel_times = <<11>>
        /\ mm_distance[t] = 2062
        /\ Fetching(u)
        /\ mm_args[u].travel_mode = "drive"
        /\ mm_args[u].travel_times = <<11, 4>>
        /\ mm_distance[u] = 8250

\* C25: a call that the memo answers without a computation does not get an
\* error dict: a failed computation is not stored, the next call with its
\* arguments computes again.
C25_ErrorNotMemoized ==
    \A t \in MemoThreads :
        (mm_pc[t] = "handle" /\ mm_hit[t]) => ~mm_heap[mm_obj[t]].error

(***************************************************************************)
(* Claims about the request handlers                                       *)
(***************************************************************************)

\* Some coordinate pair of the request has a latitude outside [-90, 90] or
\* a longitude outside [-180, 180].
OutOfRange(points) ==
    \E k \in DOMAIN points :
        \/ points[k][1] < 0 - 90 \/ points[k][1] > 90
        \/ points[k][2] < 0 - 180 \/ points[k][2] > 180

\* C14: every endpoint that takes coordinates answers a request with a
\* latitude outside [-90, 90] or a longitude outside [-180, 180] with 400,
\* and starts no calculation for it.
C14_OutOfRangeRejected ==
    (ep_pc \notin {"off", "received"} /\ OutOfRange(ep_points)) =>
        ep_pc = "rejected" /\ ep_status = 400

====
